---- MODULE Spec2Model ----
(***************************************************************************)
(* A blog with an admin panel: post and author repositories over a SQLite  *)
(* store, the slug generator, the HTML sanitizer configuration, the        *)
(* session gate (requireAuth), the login/logout flow and the admin request *)
(* handlers.                                                               *)
(*                                                                         *)
(* Text is modelled as sequences of one-character strings, HTML content as *)
(* sequences of tokens, SQL NULL / JS null as the markers below.           *)
(***************************************************************************)
EXTENDS Integers, Sequences, FiniteSets, TLC

\* ---------------------------------------------------------------- bounds
\* Largest post id / author id AUTOINCREMENT hands out in a run.
MaxPostId == 2
MaxAuthorId == 2

\* ------------------------------------------------------- null-like values
\* SQL NULL of a text column / JS null.
Null == "NULL"
\* JS undefined (a property that is absent).
Undefined == "undefined"
\* SQL NULL of an integer column (ids start at 1; JS `x || null` sends 0,
\* null and undefined to null alike).
NullId == 0
\* parseInt's NaN: matches no row id.
NaN == -1

\* A mutant of OrNull: the empty string is kept.
OrNullKeepEmpty(x) == IF x \in {Undefined, Null} THEN Null ELSE x

\* JS `x || null` on a string-valued property.
OrNull(x) == IF x \in {"", Undefined, Null} THEN Null ELSE x

\* JS `x || null` on a number-valued property.
OrNullId(n) == IF n = 0 \/ n = NaN THEN NullId ELSE n

\* ------------------------------------------------------------ characters
LowerLetters == {"a", "b", "h", "i"}
UpperLetters == {"A", "B", "H"}
Digits == {"0", "1", "2", "3", "4", "5", "6", "7", "8", "9"}
Whitespace == {" ", "\t"}

\* String.prototype.toLowerCase, one character at a time.
LowerChar(c) ==
  CASE c = "A" -> "a"
    [] c = "B" -> "b"
    [] c = "H" -> "h"
    [] OTHER -> c

\* \w of a JS regular expression: [A-Za-z0-9_].
IsWordChar(c) == c \in LowerLetters \cup UpperLetters \cup Digits \cup {"_"}

\* \s of a JS regular expression.
IsSpace(c) == c \in Whitespace

toLowerCase(s) == [i \in 1..Len(s) |-> LowerChar(s[i])]

RECURSIVE TrimStart(_)
TrimStart(s) ==
  IF s # <<>> /\ IsSpace(Head(s)) THEN TrimStart(Tail(s)) ELSE s

RECURSIVE TrimEnd(_)
TrimEnd(s) ==
  IF s # <<>> /\ IsSpace(s[Len(s)]) THEN TrimEnd(SubSeq(s, 1, Len(s) - 1)) ELSE s

\* String.prototype.trim.
trim(s) == TrimEnd(TrimStart(s))

\* .replace(/[^\w\s-]/g, "")
RemoveSpecial(s) ==
  LET Keep(c) == IsWordChar(c) \/ IsSpace(c) \/ c = "-"
  IN SelectSeq(s, Keep)

\* .replace(/\s+/g, "-"): every maximal run of whitespace becomes one hyphen.
RECURSIVE SpacesToHyphen(_)
SpacesToHyphen(s) ==
  IF s = <<>> THEN <<>>
  ELSE IF IsSpace(Head(s))
       THEN <<"-">> \o SpacesToHyphen(TrimStart(s))
       ELSE <<Head(s)>> \o SpacesToHyphen(Tail(s))

\* .replace(/-+/g, "-"): every maximal run of hyphens becomes one hyphen.
RECURSIVE CollapseHyphens(_)
CollapseHyphens(s) ==
  IF s = <<>> THEN <<>>
  ELSE IF Head(s) = "-" /\ Len(s) > 1 /\ s[2] = "-"
       THEN CollapseHyphens(Tail(s))
       ELSE <<Head(s)>> \o CollapseHyphens(Tail(s))

\* A mutant of createSlug: runs of hyphens are left as they are.
createSlugNoCollapse(title) ==
  SpacesToHyphen(RemoveSpecial(trim(toLowerCase(title))))

\* createSlug: title -> URL-friendly slug.
createSlug(title) ==
  CollapseHyphens(SpacesToHyphen(RemoveSpecial(trim(toLowerCase(title)))))

\* parseInt(id.toString()): the number spelled by the leading digits, NaN
\* when there is none.
DigitVal(c) ==
  CASE c = "0" -> 0 [] c = "1" -> 1 [] c = "2" -> 2 [] c = "3" -> 3
    [] c = "4" -> 4 [] c = "5" -> 5 [] c = "6" -> 6 [] c = "7" -> 7
    [] c = "8" -> 8 [] c = "9" -> 9

RECURSIVE LeadingDigits(_, _)
LeadingDigits(s, acc) ==
  IF s # <<>> /\ Head(s) \in Digits
  THEN LeadingDigits(Tail(s), acc * 10 + DigitVal(Head(s)))
  ELSE acc

parseInt(s) ==
  LET t == TrimStart(s)
  IN IF t # <<>> /\ Head(t) \in Digits THEN LeadingDigits(t, 0) ELSE NaN

\* Number.prototype.toString for 0..9 (ids handed out by the store).
DigitChar(n) ==
  CASE n = 0 -> "0" [] n = 1 -> "1" [] n = 2 -> "2" [] n = 3 -> "3"
    [] n = 4 -> "4" [] n = 5 -> "5" [] n = 6 -> "6" [] n = 7 -> "7"
    [] n = 8 -> "8" [] n = 9 -> "9"

RECURSIVE toString(_)
toString(n) ==
  IF n < 10 THEN <<DigitChar(n)>>
  ELSE toString(n \div 10) \o <<DigitChar(n % 10)>>

\* ------------------------------------------------------------- sanitizer
\* An HTML document is a sequence of tokens: text, an opening tag with its
\* attribute names, or a closing tag.
Text(v) == [k |-> "text", tag |-> "", attrs |-> {}, v |-> v]
Open(tag, attrs) == [k |-> "open", tag |-> tag, attrs |-> attrs, v |-> ""]
Close(tag) == [k |-> "close", tag |-> tag, attrs |-> {}, v |-> ""]

\* sanitizeHtml.defaults.allowedTags (the ones the inputs below use).
DefaultAllowedTags == {"p", "a", "b", "i", "strong", "em", "ul", "ol", "li",
                       "blockquote", "code", "pre", "br", "h3", "h4"}

\* sanitizeOptions.allowedTags
allowedTags == DefaultAllowedTags \cup {"h1", "h2", "img"}

\* sanitizeOptions.allowedAttributes: the defaults, with img and a replaced.
allowedAttributes(tag) ==
  CASE tag = "img" -> {"src", "alt", "title"}
    [] tag = "a" -> {"href", "target", "rel"}
    [] OTHER -> {}

\* Tags whose text content is dropped with them (sanitize-html nonTextTags).
nonTextTags == {"script", "style", "textarea", "option"}

\* Text is entity-escaped on output.
EscapeText(v) == IF v = "a&b" THEN "a&amp;b" ELSE v

\* One pass over the tokens; `skip` is the nonTextTag being dropped, if any.
RECURSIVE SanitizeFrom(_, _)
SanitizeFrom(s, skip) ==
  IF s = <<>> THEN <<>>
  ELSE LET t == Head(s) IN
    IF skip # ""
    THEN IF t.k = "close" /\ t.tag = skip
         THEN SanitizeFrom(Tail(s), "")
         ELSE SanitizeFrom(Tail(s), skip)
    ELSE CASE t.k = "text" -> <<Text(EscapeText(t.v))>> \o SanitizeFrom(Tail(s), "")
           [] t.k = "open" ->
                IF t.tag \in allowedTags
                THEN <<Open(t.tag, t.attrs \cap allowedAttributes(t.tag))>>
                       \o SanitizeFrom(Tail(s), "")
                ELSE SanitizeFrom(Tail(s), IF t.tag \in nonTextTags THEN t.tag ELSE "")
           [] t.k = "close" ->
                IF t.tag \in allowedTags
                THEN <<t>> \o SanitizeFrom(Tail(s), "")
                ELSE SanitizeFrom(Tail(s), "")

\* sanitizeHtml(content, sanitizeOptions)
sanitizeHtml(content) == SanitizeFrom(content, "")

\* ----------------------------------------------------------------- state
VARIABLES
  posts,      \* rows of table posts
  authors,    \* rows of table authors
  postSeq,    \* sqlite_sequence of posts: the largest id handed out so far
  authorSeq,  \* sqlite_sequence of authors
  now,        \* the clock read by datetime('now'), in seconds
  call,       \* the last repository call: its name, result and logged error
  env,        \* process.env.ADMIN_PASSWORD
  sessions,   \* server-side session data, by session cookie
  req,        \* the last HTTP request handled
  res,        \* the response sent to it
  dataFile,   \* posts.json of the JSON-file post repository: posts and nextId
  tasks,      \* the calls of the JSON-file repository in flight
  returned    \* the posts its createPost returned and no deletePost removed

storeVars == <<posts, authors, postSeq, authorSeq>>
httpVars == <<env, sessions, req, res>>
fileVars == <<dataFile, tasks, returned>>
vars ==
  <<posts, authors, postSeq, authorSeq, now, call, env, sessions, req, res,
    dataFile, tasks, returned>>

\* ---------------------------------------------------------------- inputs
Titles == { <<"H", "i">>, <<"h", "i", "!">>, <<"A", " ", "b">> }
Excerpts == {"e1"}

PlainContent == << Open("p", {}), Text("hi"), Close("p") >>
DirtyContent == << Open("script", {}), Text("x"), Close("script"),
                   Open("img", {"src", "onerror"}),
                   Open("p", {"onclick"}), Text("a&b"), Close("p") >>
Contents == {PlainContent, DirtyContent}

AuthorRefs == 0..MaxAuthorId

\* CreatePostInput / UpdatePostInput as the repository reads them.
PostInputs ==
  [title : Titles, excerpt : Excerpts, content : Contents, author_id : AuthorRefs]

Names == {"Ann", "Bob"}
Emails == {"", "a@x", "b@x"}
Bios == {"", "bio"}

\* CreateAuthorInput / UpdateAuthorInput.
AuthorInputs == [name : Names, email : Emails, bio : Bios]

\* Author inputs of the runs that exercise the post repository.
PlainAuthorInputs == [name : {"Ann"}, email : {""}, bio : {""}]

\* Ids as callers pass them (number | string): the ids the store can hand
\* out, a numeric prefix, and a non-number.
PostIdArgs == { toString(n) : n \in 1..MaxPostId } \cup { <<"1", "x">>, <<"x">> }
AuthorIdArgs == { toString(n) : n \in 1..MaxAuthorId } \cup { <<"1", "x">>, <<"x">> }

\* The store errors the repositories catch and log.
NoError == "none"
UniqueError == "SQLITE_CONSTRAINT_UNIQUE"
ForeignKeyError == "SQLITE_CONSTRAINT_FOREIGNKEY"
\* Lock contention or an I/O failure of the database file.
StoreError == "SQLITE_BUSY"

\* call: op is the repository function (or session.destroy), ok whether it returned a record (or
\* true), ret the id of the record returned (NullId for null, undefined and
\* booleans), err the error it caught, orphaned the number of posts whose
\* author reference the store cleared, raised whether it threw.
CallOf(op, ok, ret, err, orphaned) ==
  [op |-> op, ok |-> ok, ret |-> ret, err |-> err, orphaned |-> orphaned,
   raised |-> FALSE]

\* A call that did not return: the error left the function.
Raised(op, err) == [CallOf(op, FALSE, NullId, err, 0) EXCEPT !.raised = TRUE]

NoCall == CallOf("none", FALSE, NullId, NoError, 0)

\* ------------------------------------------------------ schema constraints
\* A mutant of SlugUnique: the column is not declared UNIQUE.
SlugUniqueOff(ps, row) == TRUE

\* posts.slug TEXT NOT NULL UNIQUE: no other row holds the slug.
SlugUnique(ps, row) == \A p \in ps : p.id # row.id => p.slug # row.slug

\* A mutant of ForeignKeyOK: foreign_keys is left OFF.
ForeignKeyOff(as, row) == TRUE

\* FOREIGN KEY (author_id) REFERENCES authors(id), with foreign_keys = ON.
ForeignKeyOK(as, row) ==
  row.author_id = NullId \/ \E a \in as : a.id = row.author_id

\* A mutant of EmailUnique: the column is not declared UNIQUE.
EmailUniqueOff(as, row) == TRUE

\* authors.email TEXT UNIQUE: NULLs never collide.
EmailUnique(as, row) ==
  row.email = Null \/ \A a \in as : a.id # row.id => a.email # row.email

\* A mutant of OnDeleteSetNull: ON DELETE CASCADE.
OnDeleteCascade(ps, n) == { p \in ps : p.author_id # n }

\* ON DELETE SET NULL: the posts of a deleted author lose their reference.
OnDeleteSetNull(ps, n) ==
  { IF p.author_id = n THEN [p EXCEPT !.author_id = NullId] ELSE p : p \in ps }

\* The error a write of `row` to posts raises.
PostWriteError(ps, as, row) ==
  IF ~SlugUnique(ps, row) THEN UniqueError
  ELSE IF ~ForeignKeyOK(as, row) THEN ForeignKeyError
  ELSE NoError

\* The error a write of `row` to authors raises.
AuthorWriteError(as, row) ==
  IF ~EmailUnique(as, row) THEN UniqueError ELSE NoError

\* postData.author_id of an input object, undefined when the object has no
\* such property.
AuthorIdOf(postData) ==
  IF "author_id" \in DOMAIN postData THEN postData.author_id ELSE NullId

\* ------------------------------------------------------- post repository
\* Each operation maps the store to the store after it and its result:
\* ret is the id of the post returned, NullId for null.
getPostById(ps, id) == { p \in ps : p.id = parseInt(id) }

getPostBySlug(ps, slug) == { p \in ps : p.slug = slug }

\* A mutant of InsertedPost: the content is stored as submitted.
InsertedPostRaw(id, t, postData) ==
  [id |-> id, title |-> postData.title, slug |-> createSlug(postData.title),
   excerpt |-> postData.excerpt, content |-> postData.content,
   author_id |-> OrNullId(AuthorIdOf(postData)),
   created_at |-> t, updated_at |-> t]

\* The row createPost inserts (INSERT INTO posts ... VALUES (?, ?, ?, ?, ?)).
InsertedPost(id, t, postData) ==
  LET slug == createSlug(postData.title)
      sanitizedContent == sanitizeHtml(postData.content)
  IN [id |-> id, title |-> postData.title, slug |-> slug,
      excerpt |-> postData.excerpt, content |-> sanitizedContent,
      author_id |-> OrNullId(AuthorIdOf(postData)),
      created_at |-> t, updated_at |-> t]

\* A mutant of UpdatedPost: the slug is left as it was.
UpdatedPostKeepSlug(p, t, postData) ==
  [p EXCEPT !.title = postData.title,
            !.excerpt = postData.excerpt,
            !.content = sanitizeHtml(postData.content),
            !.author_id = OrNullId(AuthorIdOf(postData)),
            !.updated_at = t]

\* A mutant of UpdatedPost: updated_at is not refreshed.
UpdatedPostStale(p, t, postData) ==
  [p EXCEPT !.title = postData.title, !.slug = createSlug(postData.title),
            !.excerpt = postData.excerpt,
            !.content = sanitizeHtml(postData.content),
            !.author_id = OrNullId(AuthorIdOf(postData))]

\* The row updatePost leaves (UPDATE posts SET ... WHERE id = ?).
UpdatedPost(p, t, postData) ==
  LET slug == createSlug(postData.title)
      sanitizedContent == sanitizeHtml(postData.content)
  IN [p EXCEPT !.title = postData.title, !.slug = slug,
               !.excerpt = postData.excerpt,
               !.content = sanitizedContent,
               !.author_id = OrNullId(AuthorIdOf(postData)),
               !.updated_at = t]

createPost(ps, as, seq, t, postData) ==
  LET row == InsertedPost(seq + 1, t, postData)
      err == PostWriteError(ps, as, row)
  IN IF err = NoError
     THEN [posts |-> ps \cup {row}, postSeq |-> seq + 1, ret |-> row.id, err |-> err]
     ELSE [posts |-> ps, postSeq |-> seq, ret |-> NullId, err |-> err]

updatePost(ps, as, t, id, postData) ==
  LET old == { p \in ps : p.id = parseInt(id) }
      errs == { PostWriteError(ps, as, UpdatedPost(p, t, postData)) : p \in old }
  IN IF old = {}
     THEN [posts |-> ps, ret |-> NullId, err |-> NoError]
     ELSE IF errs = {NoError}
          THEN [posts |-> (ps \ old) \cup { UpdatedPost(p, t, postData) : p \in old },
                ret |-> parseInt(id), err |-> NoError]
          ELSE [posts |-> ps, ret |-> NullId,
                err |-> CHOOSE e \in errs : e # NoError]

deletePost(ps, id) ==
  LET old == { p \in ps : p.id = parseInt(id) }
  IN [posts |-> ps \ old, ok |-> old # {}]

\* ----------------------------------------------------- author repository
getAuthorById(as, id) == { a \in as : a.id = parseInt(id) }

createAuthor(as, seq, t, authorData) ==
  LET row == [id |-> seq + 1, name |-> authorData.name,
              email |-> OrNull(authorData.email), bio |-> OrNull(authorData.bio),
              created_at |-> t, updated_at |-> t]
      err == AuthorWriteError(as, row)
  IN IF err = NoError
     THEN [authors |-> as \cup {row}, authorSeq |-> seq + 1, ret |-> row.id, err |-> err]
     ELSE [authors |-> as, authorSeq |-> seq, ret |-> NullId, err |-> err]

updateAuthor(as, t, id, authorData) ==
  LET old == { a \in as : a.id = parseInt(id) }
      New(a) == [a EXCEPT !.name = authorData.name,
                          !.email = OrNull(authorData.email),
                          !.bio = OrNull(authorData.bio),
                          !.updated_at = t]
      errs == { AuthorWriteError(as, New(a)) : a \in old }
  IN IF old = {}
     THEN [authors |-> as, ret |-> NullId, err |-> NoError]
     ELSE IF errs = {NoError}
          THEN [authors |-> (as \ old) \cup { New(a) : a \in old },
                ret |-> parseInt(id), err |-> NoError]
          ELSE [authors |-> as, ret |-> NullId, err |-> UniqueError]

deleteAuthor(ps, as, id) ==
  LET old == { a \in as : a.id = parseInt(id) }
  IN IF old = {}
     THEN [authors |-> as, posts |-> ps, ok |-> FALSE]
     ELSE [authors |-> as \ old, posts |-> OnDeleteSetNull(ps, parseInt(id)),
           ok |-> TRUE]

\* The id of the one row of a lookup, NullId for undefined.
IdOf(rows) == IF rows = {} THEN NullId ELSE (CHOOSE r \in rows : TRUE).id

\* ------------------------------------------------------------ read queries
\* The characters of the strings the model stores whole.
Chars(str) ==
  CASE str = "" -> <<>>
    [] str = "e1" -> <<"e", "1">>
    [] str = "hi" -> <<"h", "i">>
    [] str = "x" -> <<"x">>
    [] str = "a&b" -> <<"a", "&", "b">>
    [] str = "a&amp;b" -> <<"a", "&", "a", "m", "p", ";", "b">>
    [] str = "Ann" -> <<"A", "n", "n">>
    [] str = "Bob" -> <<"B", "o", "b">>
    [] str = "a@x" -> <<"a", "@", "x">>
    [] str = "b@x" -> <<"b", "@", "x">>
    [] str = "bio" -> <<"b", "i", "o">>
    [] str = "p" -> <<"p">>
    [] str = "img" -> <<"i", "m", "g">>
    [] str = "script" -> <<"s", "c", "r", "i", "p", "t">>

\* The markup of a content: tags by name, text by its characters (attribute
\* values are not modelled, so attributes add nothing to the text).
RECURSIVE Markup(_)
Markup(content) ==
  IF content = <<>> THEN <<>>
  ELSE LET t == Head(content)
       IN (CASE t.k = "text" -> Chars(t.v)
             [] t.k = "open" -> <<"<">> \o Chars(t.tag) \o <<">">>
             [] t.k = "close" -> <<"<", "/">> \o Chars(t.tag) \o <<">">>)
          \o Markup(Tail(content))

\* A mutant of Contains: the empty needle occurs nowhere.
ContainsNonEmpty(hay, needle) ==
  \E i \in 0..Len(hay) :
    /\ needle # <<>>
    /\ i + Len(needle) <= Len(hay)
    /\ SubSeq(hay, i + 1, i + Len(needle)) = needle

\* needle occurs in hay.
Contains(hay, needle) ==
  \E i \in 0..Len(hay) :
    i + Len(needle) <= Len(hay) /\ SubSeq(hay, i + 1, i + Len(needle)) = needle

\* column LIKE '%query%' for a query without the wildcards % and _: a
\* substring test that ignores ASCII case; NULL LIKE anything is not true.
Like(column, query) == Contains(toLowerCase(column), toLowerCase(query))

\* A mutant of OrderPosts: ORDER BY created_at ASC.
RECURSIVE OrderPostsAsc(_)
OrderPostsAsc(ps) ==
  IF ps = {} THEN <<>>
  ELSE LET first == CHOOSE p \in ps :
                      \A q \in ps : \/ p.created_at < q.created_at
                                    \/ p.created_at = q.created_at /\ p.id <= q.id
       IN <<first>> \o OrderPostsAsc(ps \ {first})

\* ORDER BY p.created_at DESC; rows of the same second come in rowid order.
RECURSIVE OrderPosts(_)
OrderPosts(ps) ==
  IF ps = {} THEN <<>>
  ELSE LET first == CHOOSE p \in ps :
                      \A q \in ps : \/ p.created_at > q.created_at
                                    \/ p.created_at = q.created_at /\ p.id <= q.id
       IN <<first>> \o OrderPosts(ps \ {first})

\* The collating order of the author names in use.
NameOrder == <<"Ann", "Bob">>
NameRank(name) == CHOOSE i \in 1..Len(NameOrder) : NameOrder[i] = name

\* ORDER BY name ASC; equal names come in rowid order.
RECURSIVE OrderAuthors(_)
OrderAuthors(as) ==
  IF as = {} THEN <<>>
  ELSE LET first == CHOOSE a \in as :
                      \A b \in as : \/ NameRank(a.name) < NameRank(b.name)
                                    \/ a.name = b.name /\ a.id <= b.id
       IN <<first>> \o OrderAuthors(as \ {first})

getAllPosts(ps) == OrderPosts(ps)

\* A mutant of searchPosts: the title alone is searched.
searchPostsTitleOnly(ps, query) ==
  OrderPosts({ p \in ps : Like(p.title, query) })

searchPosts(ps, query) ==
  OrderPosts({ p \in ps : \/ Like(p.title, query)
                          \/ Like(Chars(p.excerpt), query)
                          \/ Like(Markup(p.content), query) })

getAllAuthors(as) == OrderAuthors(as)

searchAuthors(as, query) ==
  OrderAuthors({ a \in as : \/ Like(Chars(a.name), query)
                            \/ a.email # Null /\ Like(Chars(a.email), query) })

\* COUNT(p.id) of the LEFT JOIN, per author.
PostCount(ps, a) == Cardinality({ p \in ps : p.author_id = a.id })

\* A mutant of getAuthorsWithPostCount: an inner join, which drops the
\* authors without posts.
getAuthorsInnerJoin(ps, as) ==
  LET writers == OrderAuthors({ a \in as : PostCount(ps, a) > 0 })
  IN [i \in 1..Len(writers) |->
        [author |-> writers[i], post_count |-> PostCount(ps, writers[i])]]

\* FROM authors a LEFT JOIN posts p ON a.id = p.author_id GROUP BY a.id
\* ORDER BY a.name ASC
getAuthorsWithPostCount(ps, as) ==
  [i \in 1..Len(OrderAuthors(as)) |->
     [author |-> OrderAuthors(as)[i], post_count |-> PostCount(ps, OrderAuthors(as)[i])]]

\* --------------------------------------------------------------- actions
\* Direct calls of the repository functions.
CreatePost(postData) ==
  /\ postSeq < MaxPostId
  /\ LET r == createPost(posts, authors, postSeq, now, postData) IN
       /\ posts' = r.posts
       /\ postSeq' = r.postSeq
       /\ call' = CallOf("createPost", r.ret # NullId, r.ret, r.err, 0)
  /\ UNCHANGED <<authors, authorSeq, now, httpVars, fileVars>>

UpdatePost(id, postData) ==
  /\ LET r == updatePost(posts, authors, now, id, postData) IN
       /\ posts' = r.posts
       /\ call' = CallOf("updatePost", r.ret # NullId, r.ret, r.err, 0)
  /\ UNCHANGED <<authors, postSeq, authorSeq, now, httpVars, fileVars>>

DeletePost(id) ==
  /\ LET r == deletePost(posts, id) IN
       /\ posts' = r.posts
       /\ call' = CallOf("deletePost", r.ok, NullId, NoError, 0)
  /\ UNCHANGED <<authors, postSeq, authorSeq, now, httpVars, fileVars>>

CreateAuthor(authorData) ==
  /\ authorSeq < MaxAuthorId
  /\ LET r == createAuthor(authors, authorSeq, now, authorData) IN
       /\ authors' = r.authors
       /\ authorSeq' = r.authorSeq
       /\ call' = CallOf("createAuthor", r.ret # NullId, r.ret, r.err, 0)
  /\ UNCHANGED <<posts, postSeq, now, httpVars, fileVars>>

UpdateAuthor(id, authorData) ==
  /\ LET r == updateAuthor(authors, now, id, authorData) IN
       /\ authors' = r.authors
       /\ call' = CallOf("updateAuthor", r.ret # NullId, r.ret, r.err, 0)
  /\ UNCHANGED <<posts, postSeq, authorSeq, now, httpVars, fileVars>>

DeleteAuthor(id) ==
  /\ LET r == deleteAuthor(posts, authors, id) IN
       /\ authors' = r.authors
       /\ posts' = r.posts
       /\ call' = CallOf("deleteAuthor", r.ok, NullId, NoError,
                         Cardinality({ p \in posts : r.ok /\ p.author_id = parseInt(id) }))
  /\ UNCHANGED <<postSeq, authorSeq, now, httpVars, fileVars>>

\* ------------------------------------------------------------------ HTTP
SessionIds == {"s1", "s2"}

\* A URL: the route it spells and the value of its :id / :slug segment.
Url(path, param) == [path |-> path, param |-> param]
NoUrl == Url(Undefined, <<>>)

\* SessionData: isAuthenticated is absent (falsy) until a login sets it;
\* returnTo is absent until the gate records a URL.
FreshSession == [isAuthenticated |-> FALSE, returnTo |-> NoUrl]

NoData == [none |-> TRUE]
Request(sid, method, url, body) ==
  [sid |-> sid, method |-> method, url |-> url, body |-> body]
NoReq == Request("none", "none", NoUrl, NoData)

\* A response: the handler that sent it, res.redirect(target) or
\* res.status(status).render(view, {error}).
Redirect(handler, target) ==
  [handler |-> handler, kind |-> "redirect", status |-> 302, view |-> "",
   error |-> "", target |-> target, data |-> NoData]
Render(handler, status, view, error) ==
  [handler |-> handler, kind |-> "render", status |-> status, view |-> view,
   error |-> error, target |-> NoUrl, data |-> NoData]
NoRes == Render("none", 0, "", "")

LoginUrl == Url("/login", <<>>)
AdminPostsUrl == Url("/admin/posts", <<>>)

\* URLs under the /admin mount point.
IsAdminUrl(url) ==
  url.path \in {"/admin/posts", "/admin/posts/new", "/admin/posts/:id/edit",
                "/admin/posts/:id", "/admin/posts/:id/delete", "/admin/authors",
                "/admin/authors/new", "/admin/authors/:id/edit",
                "/admin/authors/:id", "/admin/authors/:id/delete"}

\* A mutant of requireAuth: the requested URL is not recorded.
requireAuthNoReturnTo(session, originalUrl) ==
  IF session.isAuthenticated
  THEN [next |-> TRUE, session |-> session, res |-> NoRes]
  ELSE [next |-> FALSE, session |-> session,
        res |-> Redirect("requireAuth", LoginUrl)]

\* requireAuth: next() for an authenticated session; otherwise the URL is
\* saved on the session and the client is sent to /login.
requireAuth(session, originalUrl) ==
  IF session.isAuthenticated
  THEN [next |-> TRUE, session |-> session, res |-> NoRes]
  ELSE [next |-> FALSE, session |-> [session EXCEPT !.returnTo = originalUrl],
        res |-> Redirect("requireAuth", LoginUrl)]

\* A mutant of handleLogin: any submitted password is accepted.
handleLoginAnyPassword(session, password, adminPassword) ==
  [session |-> [session EXCEPT !.isAuthenticated = TRUE, !.returnTo = NoUrl],
   res |-> Redirect("handleLogin",
                    IF session.returnTo # NoUrl THEN session.returnTo
                    ELSE AdminPostsUrl)]

\* A mutant of handleLogin: session.returnTo is not deleted.
handleLoginKeepReturnTo(session, password, adminPassword) ==
  IF password = adminPassword
  THEN [session |-> [session EXCEPT !.isAuthenticated = TRUE],
        res |-> Redirect("handleLogin",
                         IF session.returnTo # NoUrl THEN session.returnTo
                         ELSE AdminPostsUrl)]
  ELSE [session |-> session,
        res |-> Render("handleLogin", 200, "login.njk",
                       "Invalid password. Please try again.")]

\* handleLogin: password === process.env.ADMIN_PASSWORD.
handleLogin(session, password, adminPassword) ==
  IF password = adminPassword
  THEN LET returnTo == IF session.returnTo # NoUrl THEN session.returnTo
                       ELSE AdminPostsUrl
       IN [session |-> [session EXCEPT !.isAuthenticated = TRUE,
                                       !.returnTo = NoUrl],
           res |-> Redirect("handleLogin", returnTo)]
  ELSE [session |-> session,
        res |-> Render("handleLogin", 200, "login.njk",
                       "Invalid password. Please try again.")]

\* showLogin
showLogin(session) ==
  IF session.isAuthenticated
  THEN Redirect("showLogin", AdminPostsUrl)
  ELSE Render("showLogin", 200, "login.njk", "")

\* Passwords a login form can carry; Undefined is a body without the field.
Passwords == {Undefined, "s3cret", "wrong"}

\* Submitted post forms (req.body): `author` is the value of the author
\* select, empty when none is chosen.
PostForms ==
  [title : {<<>>, <<"H", "i">>, <<"A", " ", "b">>}, excerpt : {"e1"},
   content : {PlainContent}, author : {<<>>, <<"1">>}]

\* The :id segment of admin URLs.
IdParams == {toString(n) : n \in 1..MaxPostId}

\* JS truthiness of a text field: the empty text is falsy.  Titles, contents
\* and selections are sequences here, excerpts are strings.
Truthy(x) == x # <<>>
TruthyString(x) == x \notin {"", Undefined, Null}

\* POST /login
Login(s, password) ==
  /\ LET r == handleLogin(sessions[s], password, env) IN
       /\ sessions' = [sessions EXCEPT ![s] = r.session]
       /\ res' = r.res
  /\ req' = Request(s, "POST", LoginUrl, [password |-> password])
  /\ call' = NoCall
  /\ UNCHANGED <<storeVars, now, env, fileVars>>

\* GET /login
ShowLogin(s) ==
  /\ res' = showLogin(sessions[s])
  /\ req' = Request(s, "GET", LoginUrl, NoData)
  /\ call' = NoCall
  /\ UNCHANGED <<storeVars, now, env, sessions, fileVars>>

\* A mutant of Logout: a destruction error is shown to the client.
LogoutReportsError(s, err) ==
  /\ sessions' = IF err THEN sessions ELSE [sessions EXCEPT ![s] = FreshSession]
  /\ res' = IF err THEN Render("handleLogout", 500, "error.njk", "Logout error")
            ELSE Redirect("handleLogout", Url("/", <<>>))
  /\ req' = Request(s, "GET", Url("/logout", <<>>), NoData)
  /\ call' = CallOf("session.destroy", ~err, NullId, NoError, 0)
  /\ UNCHANGED <<storeVars, now, env, fileVars>>

\* A mutant of Logout: the session outlives its destruction.
LogoutKeepsSession(s, err) ==
  /\ sessions' = sessions
  /\ res' = Redirect("handleLogout", Url("/", <<>>))
  /\ req' = Request(s, "GET", Url("/logout", <<>>), NoData)
  /\ call' = CallOf("session.destroy", ~err, NullId, NoError, 0)
  /\ UNCHANGED <<storeVars, now, env, fileVars>>

\* GET /logout: req.session.destroy(callback); err is what the session store
\* reports to the callback.
Logout(s, err) ==
  /\ sessions' = IF err THEN sessions ELSE [sessions EXCEPT ![s] = FreshSession]
  /\ res' = Redirect("handleLogout", Url("/", <<>>))
  /\ req' = Request(s, "GET", Url("/logout", <<>>), NoData)
  /\ call' = CallOf("session.destroy", ~err, NullId, NoError, 0)
  /\ UNCHANGED <<storeVars, now, env, fileVars>>

\* router.use(requireAuth) of adminRoutes, in front of the route handler:
\* Handler is the step the matched route takes on next().
Gated(s, method, url, body, Handler) ==
  /\ req' = Request(s, method, url, body)
  /\ LET g == requireAuth(sessions[s], url) IN
       IF g.next
       THEN /\ sessions' = [sessions EXCEPT ![s] = g.session]
            /\ Handler
       ELSE /\ sessions' = [sessions EXCEPT ![s] = g.session]
            /\ res' = g.res
            /\ call' = NoCall
            /\ UNCHANGED <<storeVars, now, env, fileVars>>

\* ------------------------------------------------------ handler responses
\* res.render(view, {..., post: req.body, error}) and the like: the response
\* with the template data that matters.
RenderWith(handler, status, view, error, data) ==
  [Render(handler, status, view, error) EXCEPT !.data = data]

\* {...req.body, id: req.params.id}
WithId(body, id) == [id |-> id] @@ body

\* A mutant of InvalidPost: only the title is required.
InvalidPostTitleOnly(body) == ~Truthy(body.title)

\* if (!title || !excerpt || !content)
InvalidPost(body) ==
  ~Truthy(body.title) \/ ~TruthyString(body.excerpt) \/ ~Truthy(body.content)

\* if (!name)
InvalidAuthor(body) == ~TruthyString(body.name)

\* The 400 response of store() and update().
ValidationResponse(handler, view, error, data) ==
  RenderWith(handler, 400, view, error, data)

\* A mutant of OutcomeResponse: the result of the repository is ignored.
OutcomeAlwaysRedirect(handler, ok, list, view, error, data) ==
  Redirect(handler, list)

\* if (newPost) res.redirect(list) else throw -> catch: status 500, the form
\* again with a generic error and the submitted values.
OutcomeResponse(handler, ok, list, view, error, data) ==
  IF ok THEN Redirect(handler, list)
  ELSE RenderWith(handler, 500, view, error, data)

\* A mutant of DestroyResponse: the result of the delete is ignored.
DestroyAlwaysRedirect(handler, success, list, message) ==
  Redirect(handler, list)

\* if (success) res.redirect(list) else throw -> catch: status 500,
\* error.njk.
DestroyResponse(handler, success, list, message) ==
  IF success THEN Redirect(handler, list)
  ELSE Render(handler, 500, "error.njk", message)

\* A mutant of FetchResponse: a missing entity is rendered like a found one.
FetchResponseNo404(handler, rows, view, message) ==
  RenderWith(handler, 200, view, "", [entity |-> IdOf(rows)])

\* if (!post) res.status(404).render("error.njk", {message}) else
\* res.render(view, {post})
FetchResponse(handler, rows, view, message) ==
  IF rows = {} THEN Render(handler, 404, "error.njk", message)
  ELSE RenderWith(handler, 200, view, "", [entity |-> IdOf(rows)])

\* -------------------------------------------------------------- listings
\* parseInt(req.query.page) || 1: an absent, non-numeric or zero page is 1;
\* a signed number is itself.
PageOf(arg) ==
  LET t == TrimStart(arg)
      neg == t # <<>> /\ Head(t) = "-"
      digits == IF t # <<>> /\ Head(t) \in {"-", "+"} THEN Tail(t) ELSE t
  IN IF digits = <<>> \/ Head(digits) \notin Digits THEN 1
     ELSE LET n == LeadingDigits(digits, 0)
          IN IF n = 0 THEN 1 ELSE IF neg THEN 0 - n ELSE n

Min(a, b) == IF a < b THEN a ELSE b
Max(a, b) == IF a > b THEN a ELSE b

\* Array.prototype.slice(start, end): a negative index counts from the end.
Slice(seq, start, end) ==
  LET from == IF start < 0 THEN Max(Len(seq) + start, 0) ELSE Min(start, Len(seq))
      to == IF end < 0 THEN Max(Len(seq) + end, 0) ELSE Min(end, Len(seq))
  IN IF from < to THEN SubSeq(seq, from + 1, to) ELSE <<>>

\* Math.ceil(totalPosts / limit)
CeilDiv(n, limit) == (n + limit - 1) \div limit

Ids(rows) == [i \in 1..Len(rows) |-> rows[i].id]

\* The template data of a post listing (posts by id).
Listing(allPosts, pageArg, limit) ==
  LET page == PageOf(pageArg)
      totalPages == CeilDiv(Len(allPosts), limit)
      offset == (page - 1) * limit
  IN [posts |-> Ids(Slice(allPosts, offset, offset + limit)),
      currentPage |-> page,
      totalPages |-> totalPages,
      hasPrevious |-> page > 1,
      hasNext |-> page < totalPages]

\* Page sizes.
AdminLimit == 10
PublicLimit == 6

\* req.query of a listing: search and page, empty when absent.
Query(search, page) == [search |-> search, page |-> page]
NoQuery == Query(<<>>, <<>>)

\* The posts adminController.index lists.
adminIndexPosts(ps, query) ==
  IF Truthy(query.search) THEN searchPosts(ps, query.search) ELSE getAllPosts(ps)

\* The authors authorController.index lists.
authorIndexAuthors(ps, as, query) ==
  IF Truthy(query.search) THEN searchAuthors(as, query.search)
  ELSE [i \in 1..Len(getAuthorsWithPostCount(ps, as)) |->
          getAuthorsWithPostCount(ps, as)[i].author]

\* ------------------------------------------------------- admin handlers
\* GET /admin/posts -> adminController.index
AdminIndex(s, query) ==
  Gated(s, "GET", AdminPostsUrl, query,
        /\ res' = RenderWith("admin.index", 200, "admin/posts/index.njk", "",
                             [searchQuery |-> query.search]
                               @@ Listing(adminIndexPosts(posts, query),
                                          query.page, AdminLimit))
        /\ call' = CallOf(IF Truthy(query.search) THEN "searchPosts" ELSE "getAllPosts",
                          TRUE, NullId, NoError, 0)
        /\ UNCHANGED <<storeVars, now, env, fileVars>>)

\* GET /admin/posts/new -> adminController.create
AdminCreate(s) ==
  Gated(s, "GET", Url("/admin/posts/new", <<>>), NoData,
        /\ res' = Render("admin.create", 200, "admin/posts/edit.njk", "")
        /\ call' = NoCall
        /\ UNCHANGED <<storeVars, now, env, fileVars>>)

\* POST /admin/posts -> adminController.store
AdminStore(s, body) ==
  /\ postSeq < MaxPostId
  /\ Gated(s, "POST", AdminPostsUrl, body,
        IF InvalidPost(body)
        THEN /\ res' = ValidationResponse("admin.store", "admin/posts/edit.njk",
                                          "Title, excerpt, and content are required",
                                          body)
             /\ call' = NoCall
             /\ UNCHANGED <<storeVars, now, env, fileVars>>
        ELSE LET r == createPost(posts, authors, postSeq, now,
                                 [title |-> body.title, excerpt |-> body.excerpt,
                                  content |-> body.content, author |-> body.author])
             IN /\ posts' = r.posts
                /\ postSeq' = r.postSeq
                /\ call' = CallOf("createPost", r.ret # NullId, r.ret, r.err, 0)
                /\ res' = OutcomeResponse("admin.store", r.ret # NullId, AdminPostsUrl,
                                          "admin/posts/edit.njk",
                                          "Error creating post", body)
                /\ UNCHANGED <<authors, authorSeq, now, env, fileVars>>)

\* GET /admin/posts/:id/edit -> adminController.edit
AdminEdit(s, id) ==
  Gated(s, "GET", Url("/admin/posts/:id/edit", id), NoData,
        /\ res' = FetchResponse("admin.edit", getPostById(posts, id),
                                "admin/posts/edit.njk", "Post not found")
        /\ call' = CallOf("getPostById", getPostById(posts, id) # {},
                          IdOf(getPostById(posts, id)), NoError, 0)
        /\ UNCHANGED <<storeVars, now, env, fileVars>>)

\* POST /admin/posts/:id -> adminController.update
AdminUpdate(s, id, body) ==
  Gated(s, "POST", Url("/admin/posts/:id", id), body,
        IF InvalidPost(body)
        THEN /\ res' = ValidationResponse("admin.update", "admin/posts/edit.njk",
                                          "Title, excerpt, and content are required",
                                          WithId(body, id))
             /\ call' = NoCall
             /\ UNCHANGED <<storeVars, now, env, fileVars>>
        ELSE LET r == updatePost(posts, authors, now, id,
                                 [title |-> body.title, excerpt |-> body.excerpt,
                                  content |-> body.content, author |-> body.author])
             IN /\ posts' = r.posts
                /\ call' = CallOf("updatePost", r.ret # NullId, r.ret, r.err, 0)
                /\ res' = OutcomeResponse("admin.update", r.ret # NullId, AdminPostsUrl,
                                          "admin/posts/edit.njk",
                                          "Error updating post", WithId(body, id))
                /\ UNCHANGED <<authors, postSeq, authorSeq, now, env, fileVars>>)

\* POST /admin/posts/:id/delete -> adminController.destroy
AdminDestroy(s, id) ==
  Gated(s, "POST", Url("/admin/posts/:id/delete", id), NoData,
        LET r == deletePost(posts, id)
        IN /\ posts' = r.posts
           /\ call' = CallOf("deletePost", r.ok, NullId, NoError, 0)
           /\ res' = DestroyResponse("admin.destroy", r.ok, AdminPostsUrl,
                                     "Error deleting post")
           /\ UNCHANGED <<authors, postSeq, authorSeq, now, env, fileVars>>)

\* GET /admin/authors: no route of adminRoutes matches, and app.ts mounts no
\* other router at /admin, so an authenticated request falls to the 404
\* handler.
AdminAuthors(s) ==
  Gated(s, "GET", Url("/admin/authors", <<>>), NoData,
        /\ res' = Render("notFound", 404, "error.njk", "Page not found")
        /\ call' = NoCall
        /\ UNCHANGED <<storeVars, now, env, fileVars>>)

\* A request to a URL under /admin/authors: adminRoutes has no route for it
\* and app.ts mounts no router that has, so behind the gate it reaches the
\* 404 handler.
AdminAuthorRequest(s, method, url, body) ==
  Gated(s, method, url, body,
        /\ res' = Render("notFound", 404, "error.njk", "Page not found")
        /\ call' = NoCall
        /\ UNCHANGED <<storeVars, now, env, fileVars>>)

\* ------------------------------------------------------ author handlers
\* The handlers of authorController, called with a request as authorRoutes
\* would call them behind its gate.
NoSession == "none"
AdminAuthorsUrl == Url("/admin/authors", <<>>)

\* authorController.index
AuthorIndex(query) ==
  /\ req' = Request(NoSession, "GET", AdminAuthorsUrl, query)
  /\ res' = RenderWith("author.index", 200, "admin/authors/index.njk", "",
                       [authors |-> Ids(authorIndexAuthors(posts, authors, query)),
                        searchQuery |-> query.search])
  /\ call' = CallOf(IF Truthy(query.search) THEN "searchAuthors"
                    ELSE "getAuthorsWithPostCount", TRUE, NullId, NoError, 0)
  /\ UNCHANGED <<storeVars, now, env, sessions, fileVars>>

\* authorController.create
AuthorCreate ==
  /\ req' = Request(NoSession, "GET", Url("/admin/authors/new", <<>>), NoData)
  /\ res' = Render("author.create", 200, "admin/authors/edit.njk", "")
  /\ call' = NoCall
  /\ UNCHANGED <<storeVars, now, env, sessions, fileVars>>

\* authorController.store
AuthorStore(body) ==
  /\ authorSeq < MaxAuthorId
  /\ req' = Request(NoSession, "POST", AdminAuthorsUrl, body)
  /\ IF InvalidAuthor(body)
     THEN /\ res' = ValidationResponse("author.store", "admin/authors/edit.njk",
                                       "Name is required", body)
          /\ call' = NoCall
          /\ UNCHANGED <<storeVars, now, env, sessions, fileVars>>
     ELSE LET r == createAuthor(authors, authorSeq, now,
                                [name |-> body.name, email |-> body.email,
                                 bio |-> body.bio])
          IN /\ authors' = r.authors
             /\ authorSeq' = r.authorSeq
             /\ call' = CallOf("createAuthor", r.ret # NullId, r.ret, r.err, 0)
             /\ res' = OutcomeResponse("author.store", r.ret # NullId, AdminAuthorsUrl,
                                       "admin/authors/edit.njk",
                                       "Error creating author (email might already exist)",
                                       body)
             /\ UNCHANGED <<posts, postSeq, now, env, sessions, fileVars>>

\* authorController.edit
AuthorEdit(id) ==
  /\ req' = Request(NoSession, "GET", Url("/admin/authors/:id/edit", id), NoData)
  /\ res' = FetchResponse("author.edit", getAuthorById(authors, id),
                          "admin/authors/edit.njk", "Author not found")
  /\ call' = CallOf("getAuthorById", getAuthorById(authors, id) # {},
                    IdOf(getAuthorById(authors, id)), NoError, 0)
  /\ UNCHANGED <<storeVars, now, env, sessions, fileVars>>

\* authorController.update
AuthorUpdate(id, body) ==
  /\ req' = Request(NoSession, "POST", Url("/admin/authors/:id", id), body)
  /\ IF InvalidAuthor(body)
     THEN /\ res' = ValidationResponse("author.update", "admin/authors/edit.njk",
                                       "Name is required", WithId(body, id))
          /\ call' = NoCall
          /\ UNCHANGED <<storeVars, now, env, sessions, fileVars>>
     ELSE LET r == updateAuthor(authors, now, id,
                                [name |-> body.name, email |-> body.email,
                                 bio |-> body.bio])
          IN /\ authors' = r.authors
             /\ call' = CallOf("updateAuthor", r.ret # NullId, r.ret, r.err, 0)
             /\ res' = OutcomeResponse("author.update", r.ret # NullId, AdminAuthorsUrl,
                                       "admin/authors/edit.njk",
                                       "Error updating author (email might already be used)",
                                       WithId(body, id))
             /\ UNCHANGED <<posts, postSeq, authorSeq, now, env, sessions, fileVars>>

\* authorController.destroy
AuthorDestroy(id) ==
  /\ req' = Request(NoSession, "POST", Url("/admin/authors/:id/delete", id), NoData)
  /\ LET r == deleteAuthor(posts, authors, id)
     IN /\ authors' = r.authors
        /\ posts' = r.posts
        /\ call' = CallOf("deleteAuthor", r.ok, NullId, NoError,
                          Cardinality({ p \in posts : p.author_id = parseInt(id) }))
        /\ res' = DestroyResponse("author.destroy", r.ok, AdminAuthorsUrl,
                                  "Error deleting author")
  /\ UNCHANGED <<postSeq, authorSeq, now, env, sessions, fileVars>>

\* ------------------------------------------------------ public handlers
\* GET /posts -> postController.index
PostsIndex(s, query) ==
  /\ req' = Request(s, "GET", Url("/posts", <<>>), query)
  /\ res' = RenderWith("posts.index", 200, "posts/index.njk", "",
                       Listing(getAllPosts(posts), query.page, PublicLimit))
  /\ call' = CallOf("getAllPosts", TRUE, NullId, NoError, 0)
  /\ UNCHANGED <<storeVars, now, env, sessions, fileVars>>

\* GET /posts/:slug -> postController.show
PostShow(s, slug) ==
  /\ req' = Request(s, "GET", Url("/posts/:slug", slug), NoData)
  /\ res' = FetchResponse("posts.show", getPostBySlug(posts, slug),
                          "posts/show.njk", "Post not found")
  /\ call' = CallOf("getPostBySlug", getPostBySlug(posts, slug) # {},
                    IdOf(getPostBySlug(posts, slug)), NoError, 0)
  /\ UNCHANGED <<storeVars, now, env, sessions, fileVars>>

\* The calls of the JSON-file post repository that may run at once.
TaskIds == {"t1", "t2"}

\* readData's fallback, and posts.json before the first write.
EmptyData == [posts |-> <<>>, nextId |-> 1]

\* A call that has not started or has returned.
IdleTask == [pc |-> "idle", op |-> "", id |-> NullId, createdAt |-> 0, data |-> EmptyData]

\* No posts.json yet and no call of the file repository in flight.
InitFile ==
  /\ dataFile = EmptyData
  /\ tasks = [t \in TaskIds |-> IdleTask]
  /\ returned = {}

\* An empty store, as initializeDatabase leaves a new database file.
Init ==
  /\ posts = {}
  /\ authors = {}
  /\ postSeq = 0
  /\ authorSeq = 0
  /\ now = 0
  /\ call = NoCall
  /\ env = "s3cret"
  /\ sessions = [s \in SessionIds |-> FreshSession]
  /\ req = NoReq
  /\ res = NoRes
  /\ InitFile

\* The repository API, exercised through the post repository.
Next ==
  \/ \E d \in PostInputs : CreatePost(d)
  \/ \E id \in PostIdArgs, d \in PostInputs : UpdatePost(id, d)
  \/ \E id \in PostIdArgs : DeletePost(id)
  \/ \E d \in PlainAuthorInputs : CreateAuthor(d)
  \/ \E id \in AuthorIdArgs, d \in PlainAuthorInputs : UpdateAuthor(id, d)
  \/ \E id \in AuthorIdArgs : DeleteAuthor(id)

Spec == Init /\ [][Next]_vars

\* The author repository with every author input.
NextAuthors ==
  \/ \E d \in AuthorInputs : CreateAuthor(d)
  \/ \E id \in AuthorIdArgs, d \in AuthorInputs : UpdateAuthor(id, d)
  \/ \E id \in AuthorIdArgs : DeleteAuthor(id)

SpecAuthors == Init /\ [][NextAuthors]_vars

\* The authors table as the data migration left it.
MigratedAuthors ==
  { [id |-> 1, name |-> "Ann", email |-> Null, bio |-> Null,
     created_at |-> 0, updated_at |-> 0] }

\* The web application with ADMIN_PASSWORD configured, over a store that is
\* new or holds the migrated authors.
InitHttp ==
  /\ posts = {}
  /\ authors \in { {}, MigratedAuthors }
  /\ authorSeq = Cardinality(authors)
  /\ postSeq = 0
  /\ now = 0
  /\ call = NoCall
  /\ env = "s3cret"
  /\ sessions = [s \in SessionIds |-> FreshSession]
  /\ req = NoReq
  /\ res = NoRes
  /\ InitFile

NextHttp ==
  \/ \E s \in SessionIds, pw \in Passwords : Login(s, pw)
  \/ \E s \in SessionIds : ShowLogin(s)
  \/ \E s \in SessionIds, err \in BOOLEAN : Logout(s, err)
  \/ \E s \in SessionIds : AdminIndex(s, NoQuery)
  \/ \E s \in SessionIds : AdminCreate(s)
  \/ \E s \in SessionIds, body \in PostForms : AdminStore(s, body)
  \/ \E s \in SessionIds, id \in IdParams : AdminEdit(s, id)
  \/ \E s \in SessionIds, id \in IdParams, body \in PostForms : AdminUpdate(s, id, body)
  \/ \E s \in SessionIds, id \in IdParams : AdminDestroy(s, id)
  \/ \E s \in SessionIds : AdminAuthors(s)

SpecHttp == InitHttp /\ [][NextHttp]_vars

\* Slugs a reader asks for.
Slugs == { createSlug(t) : t \in Titles } \cup { <<"z">> }

\* Every session logged in.
InitHandlers ==
  /\ posts = {}
  /\ authors = {}
  /\ postSeq = 0
  /\ authorSeq = 0
  /\ now = 0
  /\ call = NoCall
  /\ env = "s3cret"
  /\ sessions = [s \in SessionIds |-> [FreshSession EXCEPT !.isAuthenticated = TRUE]]
  /\ req = NoReq
  /\ res = NoRes
  /\ InitFile

\* Forms with every required field present, empty or missing.
AllPostForms ==
  [title : {<<>>, <<"H", "i">>, <<"A", " ", "b">>}, excerpt : {Undefined, "", "e1"},
   content : {<<>>, PlainContent}, author : {<<>>, <<"1">>}]
AuthorForms == [name : {Undefined, "", "Ann"}, email : {"", "a@x"}, bio : {""}]
AdminSessions == {"s1"}

\* The handlers on logged-in sessions.
NextHandlers ==
  \/ \E s \in AdminSessions : AdminIndex(s, NoQuery)
  \/ \E s \in AdminSessions : AdminCreate(s)
  \/ \E s \in AdminSessions, body \in AllPostForms : AdminStore(s, body)
  \/ \E s \in AdminSessions, id \in IdParams : AdminEdit(s, id)
  \/ \E s \in AdminSessions, id \in IdParams, body \in AllPostForms : AdminUpdate(s, id, body)
  \/ \E s \in AdminSessions, id \in IdParams : AdminDestroy(s, id)
  \/ AuthorIndex(NoQuery)
  \/ AuthorCreate
  \/ \E body \in AuthorForms : AuthorStore(body)
  \/ \E id \in IdParams : AuthorEdit(id)
  \/ \E id \in IdParams, body \in AuthorForms : AuthorUpdate(id, body)
  \/ \E id \in IdParams : AuthorDestroy(id)
  \/ \E s \in AdminSessions : PostsIndex(s, NoQuery)
  \/ \E s \in AdminSessions, slug \in Slugs : PostShow(s, slug)

SpecHandlers == InitHandlers /\ [][NextHandlers]_vars

\* The clock of the store (datetime('now')) advances between calls.
MaxTime == 2

Tick ==
  /\ now < MaxTime
  /\ now' = now + 1
  /\ UNCHANGED <<storeVars, call, env, httpVars, fileVars>>

\* Post inputs that differ in every field updatePost writes.
ClockPostInputs ==
  { [title |-> <<"H", "i">>, excerpt |-> "e1", content |-> PlainContent, author_id |-> 0],
    [title |-> <<"A", " ", "b">>, excerpt |-> "hi", content |-> DirtyContent, author_id |-> 1],
    [title |-> <<"h", "i", "!">>, excerpt |-> "hi", content |-> PlainContent, author_id |-> 1] }

\* The post repository over a store whose clock advances.
NextClock ==
  \/ Tick
  \/ \E d \in ClockPostInputs : CreatePost(d)
  \/ \E id \in PostIdArgs, d \in ClockPostInputs : UpdatePost(id, d)
  \/ \E d \in PlainAuthorInputs : CreateAuthor(d)

SpecClock == Init /\ [][NextClock]_vars

\* The application with every session logged in, over a store that is new
\* or holds the migrated authors.
InitApp ==
  /\ posts = {}
  /\ authors \in { {}, MigratedAuthors }
  /\ authorSeq = Cardinality(authors)
  /\ postSeq = 0
  /\ now = 0
  /\ call = NoCall
  /\ env = "s3cret"
  /\ sessions = [s \in SessionIds |-> [FreshSession EXCEPT !.isAuthenticated = TRUE]]
  /\ req = NoReq
  /\ res = NoRes
  /\ InitFile

\* The requests of a logged-in administrator and of readers, as app.ts
\* routes them.
NextApp ==
  \/ \E s \in AdminSessions : AdminIndex(s, NoQuery)
  \/ \E s \in AdminSessions : AdminCreate(s)
  \/ \E s \in AdminSessions, body \in AllPostForms : AdminStore(s, body)
  \/ \E s \in AdminSessions, id \in IdParams : AdminEdit(s, id)
  \/ \E s \in AdminSessions, id \in IdParams, body \in AllPostForms : AdminUpdate(s, id, body)
  \/ \E s \in AdminSessions, id \in IdParams : AdminDestroy(s, id)
  \/ \E s \in AdminSessions :
       AdminAuthorRequest(s, "GET", AdminAuthorsUrl, NoQuery)
  \/ \E s \in AdminSessions :
       AdminAuthorRequest(s, "GET", Url("/admin/authors/new", <<>>), NoData)
  \/ \E s \in AdminSessions, body \in AuthorForms :
       AdminAuthorRequest(s, "POST", AdminAuthorsUrl, body)
  \/ \E s \in AdminSessions, id \in IdParams :
       AdminAuthorRequest(s, "GET", Url("/admin/authors/:id/edit", id), NoData)
  \/ \E s \in AdminSessions, id \in IdParams, body \in AuthorForms :
       AdminAuthorRequest(s, "POST", Url("/admin/authors/:id", id), body)
  \/ \E s \in AdminSessions, id \in IdParams :
       AdminAuthorRequest(s, "POST", Url("/admin/authors/:id/delete", id), NoData)
  \/ \E s \in AdminSessions : PostsIndex(s, NoQuery)
  \/ \E s \in AdminSessions, slug \in Slugs : PostShow(s, slug)

SpecApp == InitApp /\ [][NextApp]_vars

\* A store that holds n posts, created one per tick of the clock.
MaxListed == 11

SeededPost(i) ==
  [id |-> i, title |-> <<"a">> \o toString(i),
   slug |-> createSlug(<<"a">> \o toString(i)),
   excerpt |-> "x", content |-> sanitizeHtml(PlainContent), author_id |-> NullId,
   created_at |-> i, updated_at |-> i]

SeededPosts(n) == { SeededPost(i) : i \in 1..n }

InitListing ==
  /\ \E n \in 0..MaxListed :
       /\ posts = SeededPosts(n)
       /\ postSeq = n
       /\ now = n
  /\ authors \in { {}, MigratedAuthors }
  /\ authorSeq = Cardinality(authors)
  /\ call = NoCall
  /\ env = "s3cret"
  /\ sessions = [s \in SessionIds |-> [FreshSession EXCEPT !.isAuthenticated = TRUE]]
  /\ req = NoReq
  /\ res = NoRes
  /\ InitFile

\* ?search= and ?page= as the listing endpoints receive them.
Pages == { <<>>, <<"0">>, <<"1">>, <<"2">>, <<"3">>, <<"-", "1">>, <<"x">> }
ListingQueries ==
  { Query(search, page) : search \in { <<>>, <<"a", "1">>, <<"z">> }, page \in Pages }

\* The listing endpoints, as app.ts routes them, over a store an
\* administrator deletes from.
NextListing ==
  \/ \E s \in AdminSessions, q \in ListingQueries : PostsIndex(s, q)
  \/ \E s \in AdminSessions, q \in ListingQueries : AdminIndex(s, q)
  \/ \E s \in AdminSessions, q \in ListingQueries :
       AdminAuthorRequest(s, "GET", AdminAuthorsUrl, q)
  \/ \E s \in AdminSessions, id \in IdParams : AdminDestroy(s, id)

SpecListing == InitListing /\ [][NextListing]_vars

\* Titles of every shape the slug generator distinguishes: letters of both
\* cases, a digit, an underscore, a hyphen, two kinds of whitespace and a
\* special character, up to MaxTitleLen characters.
MaxTitleLen == 4

TitleChars == {"A", "b", "1", "_", "-", " ", "\t", "!"}

AnyTitles == UNION { [1..n -> TitleChars] : n \in 0..MaxTitleLen }

\* createPost of a post with the given title, into an empty posts table.
CreateTitled(title) ==
  /\ posts = {}
  /\ CreatePost([title |-> title, excerpt |-> "e1", content |-> PlainContent,
                 author_id |-> NullId])

\* The slug generator, applied by createPost to titles of every shape.
NextSlug ==
  \/ \E title \in AnyTitles : CreateTitled(title)
  \/ \E id \in PostIdArgs : DeletePost(id)

SpecSlug == Init /\ [][NextSlug]_vars

\* The application started without ADMIN_PASSWORD in its environment.
InitNoSecret ==
  /\ posts = {}
  /\ authors \in { {}, MigratedAuthors }
  /\ authorSeq = Cardinality(authors)
  /\ postSeq = 0
  /\ now = 0
  /\ call = NoCall
  /\ env = Undefined
  /\ sessions = [s \in SessionIds |-> FreshSession]
  /\ req = NoReq
  /\ res = NoRes
  /\ InitFile

SpecNoSecret == InitNoSecret /\ [][NextHttp]_vars

\* GET /posts/<slug> as postRoutes dispatches it: router.get("/") takes the
\* request when the segment after /posts/ is empty, router.get("/:slug")
\* takes it otherwise.
PostsRoute(s, slug) ==
  /\ req' = Request(s, "GET", Url("/posts/:slug", slug), NoData)
  /\ res' = IF slug = <<>>
            THEN RenderWith("posts.index", 200, "posts/index.njk", "",
                            Listing(getAllPosts(posts), <<>>, PublicLimit))
            ELSE FetchResponse("posts.show", getPostBySlug(posts, slug),
                               "posts/show.njk", "Post not found")
  /\ call' = IF slug = <<>> THEN CallOf("getAllPosts", TRUE, NullId, NoError, 0)
             ELSE CallOf("getPostBySlug", getPostBySlug(posts, slug) # {},
                         IdOf(getPostBySlug(posts, slug)), NoError, 0)
  /\ UNCHANGED <<storeVars, now, env, sessions, fileVars>>

\* Post forms whose titles pass validation, one of them made of a special
\* character alone.
PublicTitles == { <<"H", "i">>, <<"A", " ", "b">>, <<"!">> }
PublicForms ==
  [title : PublicTitles, excerpt : {"e1"}, content : {PlainContent}, author : {<<>>}]
PublicSlugs == { createSlug(t) : t \in PublicTitles } \cup { <<"z">> }

\* An administrator writing posts and readers following their links.
NextPublic ==
  \/ \E s \in AdminSessions, body \in PublicForms : AdminStore(s, body)
  \/ \E s \in AdminSessions, id \in IdParams, body \in PublicForms : AdminUpdate(s, id, body)
  \/ \E s \in AdminSessions, id \in IdParams : AdminDestroy(s, id)
  \/ \E s \in SessionIds, slug \in PublicSlugs : PostsRoute(s, slug)

SpecPublic == InitApp /\ [][NextPublic]_vars

\* ------------------------------------------- repository calls, store errors
\* `fault`: the statement raises a store error (lock contention, I/O
\* failure).  The functions with a try/catch log it and return null or
\* false; in the functions without one it leaves the function.
Caught(op) ==
  /\ call' = CallOf(op, FALSE, NullId, StoreError, 0)
  /\ UNCHANGED <<storeVars, now, httpVars, fileVars>>

Thrown(op) ==
  /\ call' = Raised(op, StoreError)
  /\ UNCHANGED <<storeVars, now, httpVars, fileVars>>

Returned(op, ok, ret) ==
  /\ call' = CallOf(op, ok, ret, NoError, 0)
  /\ UNCHANGED <<storeVars, now, httpVars, fileVars>>

GetAllPosts(fault) ==
  IF fault THEN Thrown("getAllPosts") ELSE Returned("getAllPosts", TRUE, NullId)

GetPostById(id, fault) ==
  IF fault THEN Thrown("getPostById")
  ELSE Returned("getPostById", getPostById(posts, id) # {}, IdOf(getPostById(posts, id)))

GetPostBySlug(slug, fault) ==
  IF fault THEN Thrown("getPostBySlug")
  ELSE Returned("getPostBySlug", getPostBySlug(posts, slug) # {},
                IdOf(getPostBySlug(posts, slug)))

SearchPosts(query, fault) ==
  IF fault THEN Thrown("searchPosts") ELSE Returned("searchPosts", TRUE, NullId)

GetAllAuthors(fault) ==
  IF fault THEN Thrown("getAllAuthors") ELSE Returned("getAllAuthors", TRUE, NullId)

GetAuthorById(id, fault) ==
  IF fault THEN Thrown("getAuthorById")
  ELSE Returned("getAuthorById", getAuthorById(authors, id) # {},
                IdOf(getAuthorById(authors, id)))

SearchAuthors(query, fault) ==
  IF fault THEN Thrown("searchAuthors") ELSE Returned("searchAuthors", TRUE, NullId)

GetAuthorsWithPostCount(fault) ==
  IF fault THEN Thrown("getAuthorsWithPostCount")
  ELSE Returned("getAuthorsWithPostCount", TRUE, NullId)

CreatePostOn(postData, fault) ==
  IF fault THEN Caught("createPost") ELSE CreatePost(postData)

UpdatePostOn(id, postData, fault) ==
  IF fault THEN Caught("updatePost") ELSE UpdatePost(id, postData)

DeletePostOn(id, fault) ==
  IF fault THEN Caught("deletePost") ELSE DeletePost(id)

CreateAuthorOn(authorData, fault) ==
  IF fault THEN Caught("createAuthor") ELSE CreateAuthor(authorData)

UpdateAuthorOn(id, authorData, fault) ==
  IF fault THEN Caught("updateAuthor") ELSE UpdateAuthor(id, authorData)

DeleteAuthorOn(id, fault) ==
  IF fault THEN Caught("deleteAuthor") ELSE DeleteAuthor(id)

\* Inputs of the runs with store errors.
ThinPostInputs ==
  [title : Titles, excerpt : Excerpts, content : {PlainContent}, author_id : {0, 1}]
Queries == { <<>>, <<"h">>, <<"z">> }

NextFaults ==
  \/ \E f \in BOOLEAN : GetAllPosts(f)
  \/ \E id \in PostIdArgs, f \in BOOLEAN : GetPostById(id, f)
  \/ \E slug \in Slugs, f \in BOOLEAN : GetPostBySlug(slug, f)
  \/ \E q \in Queries, f \in BOOLEAN : SearchPosts(q, f)
  \/ \E f \in BOOLEAN : GetAllAuthors(f)
  \/ \E id \in AuthorIdArgs, f \in BOOLEAN : GetAuthorById(id, f)
  \/ \E q \in Queries, f \in BOOLEAN : SearchAuthors(q, f)
  \/ \E f \in BOOLEAN : GetAuthorsWithPostCount(f)
  \/ \E d \in ThinPostInputs, f \in BOOLEAN : CreatePostOn(d, f)
  \/ \E id \in PostIdArgs, d \in ThinPostInputs, f \in BOOLEAN : UpdatePostOn(id, d, f)
  \/ \E id \in PostIdArgs, f \in BOOLEAN : DeletePostOn(id, f)
  \/ \E d \in PlainAuthorInputs, f \in BOOLEAN : CreateAuthorOn(d, f)
  \/ \E id \in AuthorIdArgs, d \in PlainAuthorInputs, f \in BOOLEAN : UpdateAuthorOn(id, d, f)
  \/ \E id \in AuthorIdArgs, f \in BOOLEAN : DeleteAuthorOn(id, f)

SpecFaults == Init /\ [][NextFaults]_vars

\* ------------------------------------------------------------ properties
\* The request of a step (every step of SpecHttp is one request) is an
\* admin request.
IsAdminRequest(r) == r.sid \in SessionIds /\ IsAdminUrl(r.url)

IsLoginPost(r) ==
  r.sid \in SessionIds /\ r.method = "POST" /\ r.url = LoginUrl

\* C1: Session gate.  A request under /admin on a session that is not
\* authenticated invokes no handler: no repository operation runs, the store
\* is unchanged, the response is a redirect to /login and session.returnTo
\* becomes the requested URL.  On an authenticated session the request
\* passes to a handler and the session is unchanged.
C1_SessionGate ==
  [][ IsAdminRequest(req') =>
        LET s == req'.sid IN
          IF sessions[s].isAuthenticated
          THEN /\ sessions' = sessions
               /\ res'.handler \notin {"requireAuth", "none"}
          ELSE /\ UNCHANGED storeVars
               /\ call' = NoCall
               /\ res' = Redirect("requireAuth", LoginUrl)
               /\ sessions' = [sessions EXCEPT ![s].returnTo = req'.url] ]_vars

\* A blocked write request on a store that holds a post.
C1_Witness ==
  /\ IsAdminRequest(req)
  /\ req.url.path = "/admin/posts/:id/delete"
  /\ res = Redirect("requireAuth", LoginUrl)
  /\ sessions[req.sid].returnTo = req.url
  /\ ~sessions[req.sid].isAuthenticated
  /\ posts # {}

\* C2: Login.  A session becomes authenticated only in a POST /login on that
\* session whose password equals the configured secret; a POST /login with
\* another password renders the login view and leaves the session unchanged.
C2_Login ==
  [][ /\ \A s \in SessionIds :
           (~sessions[s].isAuthenticated /\ sessions'[s].isAuthenticated)
             => /\ IsLoginPost(req')
                /\ req'.sid = s
                /\ req'.body.password = env
      /\ (IsLoginPost(req') /\ req'.body.password # env)
           => /\ sessions' = sessions
              /\ res'.kind = "render"
              /\ res'.view = "login.njk" ]_vars

\* A session authenticated by its login, and another that is not.
C2_Witness ==
  /\ IsLoginPost(req)
  /\ req.body.password = env
  /\ sessions[req.sid].isAuthenticated
  /\ \E s \in SessionIds : ~sessions[s].isAuthenticated

\* C3: Redirect-back happens exactly once.  A blocked admin request records
\* its URL; a correct login redirects to the recorded URL, or to /admin/posts
\* when none is recorded, and clears the record; nothing but a blocked admin
\* request on the session records a URL again.
C3_RedirectBackOnce ==
  [][ /\ (IsAdminRequest(req') /\ ~sessions[req'.sid].isAuthenticated)
           => sessions'[req'.sid].returnTo = req'.url
      /\ (IsLoginPost(req') /\ req'.body.password = env)
           => LET s == req'.sid IN
                /\ res'.kind = "redirect"
                /\ res'.target = IF sessions[s].returnTo # NoUrl
                                 THEN sessions[s].returnTo
                                 ELSE AdminPostsUrl
                /\ sessions'[s].returnTo = NoUrl
      /\ \A s \in SessionIds :
           (sessions'[s].returnTo # sessions[s].returnTo
              /\ sessions'[s].returnTo # NoUrl)
             => /\ IsAdminRequest(req')
                /\ req'.sid = s
                /\ ~sessions[s].isAuthenticated ]_vars

\* A correct login that went back to a recorded path and cleared it.
C3_Witness ==
  /\ IsLoginPost(req)
  /\ req.body.password = env
  /\ res = Redirect("handleLogin", Url("/admin/posts/new", <<>>))
  /\ sessions[req.sid].returnTo = NoUrl

\* C4: Slug uniqueness.  No two stored posts have the same slug.
C4_SlugUnique == \A p, q \in posts : p # q => p.slug # q.slug

\* Two posts are stored and a write that collided was refused.
C4_Witness ==
  /\ Cardinality(posts) = 2
  /\ call.op = "updatePost"
  /\ call.err = UniqueError

\* C5: Slug collision fails without effect.  createPost with a title whose
\* slug an existing post holds returns null and inserts nothing; updatePost
\* that would give post A the slug of another post B returns null and leaves
\* the store unchanged; updatePost that keeps the post's own title (with an
\* author reference the store accepts) succeeds.
C5_CollisionNoEffect ==
  /\ [](\A d \in PostInputs :
          (\E p \in posts : p.slug = createSlug(d.title)) =>
            LET r == createPost(posts, authors, postSeq, now, d)
            IN r.ret = NullId /\ r.posts = posts /\ r.postSeq = postSeq)
  /\ [](\A id \in PostIdArgs, d \in PostInputs :
          \A a \in posts :
            a.id = parseInt(id) =>
              LET r == updatePost(posts, authors, now, id, d) IN
                /\ (\E b \in posts : b.id # a.id /\ b.slug = createSlug(d.title))
                     => r.ret = NullId /\ r.posts = posts
                /\ (d.title = a.title
                    /\ (d.author_id = NullId
                        \/ \E u \in authors : u.id = d.author_id))
                     => /\ r.ret = a.id
                        /\ \E q \in r.posts : q.id = a.id /\ q.slug = a.slug)
  /\ [][ (call'.op \in {"createPost", "updatePost"} /\ call'.err = UniqueError)
           => /\ call'.ret = NullId
              /\ ~call'.ok
              /\ UNCHANGED storeVars ]_vars

\* A createPost refused for its slug, on a store that holds a post.
C5_Witness ==
  /\ call.op = "createPost"
  /\ call.err = UniqueError
  /\ call.ret = NullId
  /\ Cardinality(posts) = 1

\* C6: Slug tracks title.  Every stored post has slug = createSlug(title).
C6_SlugTracksTitle == \A p \in posts : p.slug = createSlug(p.title)

\* A successful updatePost left a post whose title differs from the title
\* the other post was created with, and whose slug is not its title.
C6_Witness ==
  /\ call.op = "updatePost"
  /\ call.ok
  /\ \E p \in posts :
       /\ p.id = call.ret
       /\ p.title = <<"A", " ", "b">>
       /\ p.slug = <<"a", "-", "b">>

\* C7: Author email uniqueness.  No two stored authors share a non-null
\* email; createAuthor or updateAuthor with a non-empty email another author
\* holds returns null and leaves the authors table unchanged; a createAuthor
\* without email is never refused.
C7_EmailUnique ==
  /\ [](\A a, b \in authors :
          (a # b /\ a.email # Null) => a.email # b.email)
  /\ [][ /\ \A d \in AuthorInputs :
              CreateAuthor(d) =>
                /\ (d.email # "" /\ \E a \in authors : a.email = d.email)
                     => /\ call'.ret = NullId
                        /\ authors' = authors
                /\ d.email = "" => call'.ok /\ Cardinality(authors') = Cardinality(authors) + 1
         /\ \A id \in AuthorIdArgs, d \in AuthorInputs :
              (UpdateAuthor(id, d) /\ d.email # ""
                 /\ \E a, b \in authors :
                      a.id = parseInt(id) /\ b.id # a.id /\ b.email = d.email)
                => /\ call'.ret = NullId
                   /\ authors' = authors ]_vars

\* An updateAuthor refused for its email, next to an author with an email.
C7_Witness ==
  /\ call.op = "updateAuthor"
  /\ call.err = UniqueError
  /\ Cardinality(authors) = 2
  /\ \E a \in authors : a.email # Null

\* C8: Deleting an author orphans its posts.  A successful deleteAuthor(A)
\* leaves the same post ids; the posts that referenced A have author_id
\* null, and nothing else of any post changes.
C8_DeleteAuthorOrphans ==
  [][ \A id \in AuthorIdArgs :
        (DeleteAuthor(id) /\ call'.ok) =>
          /\ { p.id : p \in posts' } = { p.id : p \in posts }
          /\ Cardinality(posts') = Cardinality(posts)
          /\ call'.orphaned = Cardinality({ p \in posts : p.author_id = parseInt(id) })
          /\ \A p \in posts :
               \E q \in posts' :
                 q = [p EXCEPT !.author_id = IF p.author_id = parseInt(id)
                                             THEN NullId ELSE @] ]_vars

\* A deleteAuthor that orphaned one post next to a post of another author.
C8_Witness ==
  /\ call.op = "deleteAuthor"
  /\ call.ok
  /\ call.orphaned = 1
  /\ Cardinality(posts) = 2
  /\ \E p \in posts : p.author_id # NullId
  /\ \E p \in posts : p.author_id = NullId

\* C9: Stored content is never raw.  Every content a step writes is
\* sanitizeHtml of the content submitted to the createPost or updatePost
\* that wrote it, and stored content holds nothing the sanitizer removes.
C9_ContentSanitized ==
  /\ [](\A p \in posts : sanitizeHtml(p.content) = p.content)
  /\ [][ \A q \in posts' :
           \/ \E p \in posts : p.id = q.id /\ p.content = q.content
           \/ \E d \in PostInputs :
                /\ \/ CreatePost(d)
                   \/ \E id \in PostIdArgs : UpdatePost(id, d)
                /\ q.id = call'.ret
                /\ q.content = sanitizeHtml(d.content) ]_vars

\* A post whose content changed in a successful updatePost to the sanitized
\* form of the content with script, handler attributes and a bare ampersand.
C9_Witness ==
  /\ call.op = "updatePost"
  /\ call.ok
  /\ \E p \in posts :
       /\ p.id = call.ret
       /\ p.content = sanitizeHtml(DirtyContent)
       /\ p.content # DirtyContent

\* C10: Author reference reaches the store through the admin handlers.
\* After POST /admin/posts or POST /admin/posts/:id succeeded with valid
\* fields, the written post references the selected author when that author
\* exists, and no author when none was selected.
C10_AuthorReachesStore ==
  ( /\ IsAdminRequest(req)
    /\ req.method = "POST"
    /\ req.url.path \in {"/admin/posts", "/admin/posts/:id"}
    /\ res.kind = "redirect"
    /\ res.handler \in {"admin.store", "admin.update"} )
  => \E p \in posts :
       /\ p.id = call.ret
       /\ p.author_id = IF req.body.author = <<>> THEN NullId
                        ELSE IF \E a \in authors : a.id = parseInt(req.body.author)
                             THEN parseInt(req.body.author)
                             ELSE p.author_id

\* C11: Author admin routes are served behind the gate.  A request to
\* /admin/authors is answered by the gate (redirect to /login) or by the
\* author handler, never by the 404 fallback.
C11_AuthorRoutesServed ==
  (IsAdminRequest(req) /\ req.url.path = "/admin/authors")
    => res.handler \in {"requireAuth", "author.index"}

\* C12: Repositories never raise.  No repository operation lets an error
\* leave the function: every call returns.
C12_NeverRaise == ~call.raised

\* The request of a step is a form submission to a post / author endpoint.
IsPostSubmission(r) ==
  r.method = "POST" /\ r.url.path \in {"/admin/posts", "/admin/posts/:id"}

IsAuthorSubmission(r) ==
  r.method = "POST" /\ r.url.path \in {"/admin/authors", "/admin/authors/:id"}

\* The template data carries every submitted field.
KeepsValues(data, body) ==
  \A f \in DOMAIN body : f \in DOMAIN data /\ data[f] = body[f]

FormView(r) ==
  IF IsPostSubmission(r) THEN "admin/posts/edit.njk" ELSE "admin/authors/edit.njk"

ListUrl(r) == IF IsPostSubmission(r) THEN AdminPostsUrl ELSE AdminAuthorsUrl

\* A required field of the submitted form is empty or missing.
MissingField(r) ==
  \/ /\ IsPostSubmission(r)
     /\ \/ r.body.title = <<>>
        \/ r.body.excerpt \in {"", Undefined}
        \/ r.body.content = <<>>
  \/ /\ IsAuthorSubmission(r)
     /\ r.body.name \in {"", Undefined}

\* C13: Validation failure does not persist.  A submission with an empty or
\* missing required field (title, excerpt, content; name) is answered with
\* status 400 and the form with the submitted values and an error message;
\* no repository call is made and the store is unchanged.
C13_ValidationNoPersist ==
  [][ ((IsPostSubmission(req') \/ IsAuthorSubmission(req')) /\ MissingField(req'))
        => /\ res'.kind = "render"
           /\ res'.status = 400
           /\ res'.view = FormView(req')
           /\ res'.error # ""
           /\ KeepsValues(res'.data, req'.body)
           /\ call' = NoCall
           /\ UNCHANGED storeVars ]_vars

\* An update of a stored post refused for its excerpt or content.
C13_Witness ==
  /\ res.status = 400
  /\ res.handler = "admin.update"
  /\ req.body.title # <<>>
  /\ \E p \in posts : p.id = parseInt(req.url.param)

\* C14: Create/update outcome mapping.  A validated submission is answered
\* with a redirect to the list view exactly when the repository returned a
\* record; otherwise the form comes back with a generic error and the
\* submitted values, and the store is unchanged.
C14_OutcomeMapping ==
  [][ ((IsPostSubmission(req') \/ IsAuthorSubmission(req')) /\ ~MissingField(req'))
        => /\ call'.op \in {"createPost", "updatePost", "createAuthor", "updateAuthor"}
           /\ call'.ok <=> (res'.kind = "redirect" /\ res'.target = ListUrl(req'))
           /\ call'.ok <=> call'.ret # NullId
           /\ call'.ok =>
                IF IsPostSubmission(req')
                THEN \E p \in posts' : p.id = call'.ret /\ p.title = req'.body.title
                ELSE \E a \in authors' : a.id = call'.ret /\ a.name = req'.body.name
           /\ ~call'.ok =>
                /\ res'.kind = "render"
                /\ res'.view = FormView(req')
                /\ res'.error # ""
                /\ KeepsValues(res'.data, req'.body)
                /\ UNCHANGED storeVars ]_vars

\* An author form refused by the store for its email.
C14_Witness ==
  /\ res.handler = "author.store"
  /\ res.kind = "render"
  /\ call.op = "createAuthor"
  /\ call.err = UniqueError
  /\ authors # {}

\* The request of a step is a delete.
IsPostDelete(r) == r.method = "POST" /\ r.url.path = "/admin/posts/:id/delete"
IsAuthorDelete(r) == r.method = "POST" /\ r.url.path = "/admin/authors/:id/delete"

\* C15: Delete endpoints.  A delete request is answered with a redirect to
\* the list view exactly when a row with that id existed, and the row is
\* then gone; when the id is absent an error view is sent and the store is
\* unchanged.  A post delete removes that row alone and touches no author.
C15_DeleteEndpoints ==
  [][ /\ IsPostDelete(req') =>
           LET old == { p \in posts : p.id = parseInt(req'.url.param) } IN
             /\ (res'.kind = "redirect" /\ res'.target = AdminPostsUrl) <=> old # {}
             /\ posts' = posts \ old
             /\ UNCHANGED <<authors, postSeq, authorSeq>>
             /\ old = {} => res'.kind = "render" /\ res'.view = "error.njk"
                            /\ res'.error # ""
      /\ IsAuthorDelete(req') =>
           LET old == { a \in authors : a.id = parseInt(req'.url.param) } IN
             /\ (res'.kind = "redirect" /\ res'.target = AdminAuthorsUrl) <=> old # {}
             /\ authors' = authors \ old
             /\ old = {} => /\ res'.kind = "render" /\ res'.view = "error.njk"
                            /\ res'.error # ""
                            /\ UNCHANGED storeVars ]_vars

\* A post deleted while another post and an author stay.
C15_Witness ==
  /\ res = Redirect("admin.destroy", AdminPostsUrl)
  /\ call.op = "deletePost"
  /\ call.ok
  /\ Cardinality(posts) = 1
  /\ authors # {}

\* The rows a single-entity fetch looks up.
Looked(r, ps, as) ==
  CASE r.url.path = "/posts/:slug" -> { p \in ps : p.slug = r.url.param }
    [] r.url.path = "/admin/posts/:id/edit" -> { p \in ps : p.id = parseInt(r.url.param) }
    [] r.url.path = "/admin/authors/:id/edit" -> { a \in as : a.id = parseInt(r.url.param) }

IsFetch(r) ==
  /\ r.method = "GET"
  /\ r.url.path \in {"/posts/:slug", "/admin/posts/:id/edit", "/admin/authors/:id/edit"}

\* C16: Not-found handling.  A single-entity fetch is answered with status
\* 404 and a generic message exactly when the lookup finds nothing, and with
\* the entity otherwise; the store is not modified.
C16_NotFound ==
  [][ IsFetch(req') =>
        LET rows == Looked(req', posts, authors) IN
          /\ (res'.status = 404) <=> (rows = {})
          /\ rows = {} => /\ res'.view = "error.njk"
                          /\ res'.error # ""
          /\ rows # {} => /\ res'.status = 200
                          /\ res'.view \in {"posts/show.njk", "admin/posts/edit.njk",
                                            "admin/authors/edit.njk"}
                          /\ \E e \in rows : res'.data.entity = e.id
          /\ UNCHANGED storeVars ]_vars

\* An author looked up by an id no author has, next to a stored author.
C16_Witness ==
  /\ res.handler = "author.edit"
  /\ res.status = 404
  /\ authors # {}
  /\ posts # {}

\* C17: Post update frame.  A successful updatePost(id, input) overwrites
\* title, slug, excerpt, content and author reference of the post with that
\* id, keeps its id and created_at, sets updated_at to the time of the call
\* and leaves every other post as it was; on an id that matches no row it
\* returns null and changes nothing.
C17_UpdateFrame ==
  /\ [](\A id \in PostIdArgs, d \in ClockPostInputs :
          LET r == updatePost(posts, authors, now, id, d)
              old == { p \in posts : p.id = parseInt(id) }
          IN /\ old = {} => r.ret = NullId /\ r.posts = posts
             /\ r.ret # NullId =>
                  \E a \in old, q \in r.posts :
                    /\ r.ret = a.id
                    /\ q.id = a.id
                    /\ q.created_at = a.created_at
                    /\ q.updated_at = now
                    /\ q.title = d.title
                    /\ q.slug = createSlug(d.title)
                    /\ q.excerpt = d.excerpt
                    /\ q.content = sanitizeHtml(d.content)
                    /\ q.author_id = d.author_id
                    /\ r.posts \ {q} = posts \ {a})
  /\ [][ (call'.op = "updatePost" /\ now' = now) =>
           /\ UNCHANGED <<authors, postSeq, authorSeq>>
           /\ call'.ok =>
                \E a \in posts, q \in posts' :
                  /\ q.id = a.id
                  /\ call'.ret = a.id
                  /\ q.created_at = a.created_at
                  /\ q.updated_at = now
                  /\ posts' \ {q} = posts \ {a}
           /\ ~call'.ok => posts' = posts ]_vars

\* A post updated after the clock moved on, next to a post left alone.
C17_Witness ==
  /\ call.op = "updatePost"
  /\ call.ok
  /\ \E q \in posts : q.id = call.ret /\ q.updated_at > q.created_at
  /\ \E p \in posts : p.id # call.ret /\ p.updated_at = p.created_at

\* Author inputs as createAuthor may receive them: email and bio are
\* optional properties.
OptionalAuthorInputs ==
  [name : Names, email : Emails \cup {Undefined}, bio : Bios \cup {Undefined}]

\* The email of the input is absent or held by no author.
EmailFree(as, d) == d.email = Undefined \/ \A a \in as : a.email # d.email

\* A column equals an input property; an absent property reads back as null.
SameAsInput(column, property) ==
  IF property = Undefined THEN column = Null ELSE column = property

\* C18 as stated: createAuthor succeeds on every input whose email is absent
\* or held by no author, and getAuthorById(returned id) has name, email and
\* bio equal to the input, the empty string included, and an id no other
\* author has.
C18_RoundTripAsStated ==
  \A d \in OptionalAuthorInputs :
    EmailFree(authors, d) =>
      LET r == createAuthor(authors, authorSeq, now, d) IN
        /\ r.ret # NullId
        /\ \E a \in getAuthorById(r.authors, toString(r.ret)) :
             /\ a.name = d.name
             /\ SameAsInput(a.email, d.email)
             /\ SameAsInput(a.bio, d.bio)
             /\ \A b \in authors : b.id # a.id

\* C18: Author create/read round trip.  For every author input whose email
\* is absent, empty or held by no author, createAuthor succeeds and
\* getAuthorById(returned id) returns a record with the name of the input,
\* with email and bio equal to the input where it is a non-empty string and
\* null where it is empty or absent, and with an id no other author has.
C18_RoundTrip ==
  /\ [](\A d \in OptionalAuthorInputs :
          EmailFree(authors, d) =>
            LET r == createAuthor(authors, authorSeq, now, d) IN
              /\ r.ret # NullId
              /\ \E a \in getAuthorById(r.authors, toString(r.ret)) :
                   /\ a.name = d.name
                   /\ a.email = (IF d.email \in {"", Undefined} THEN Null ELSE d.email)
                   /\ a.bio = (IF d.bio \in {"", Undefined} THEN Null ELSE d.bio)
                   /\ \A b \in authors : b.id # a.id
                   /\ r.authors = authors \cup {a})
  /\ [][ (call'.op = "createAuthor" /\ call'.ok) =>
           \E a \in authors' :
             /\ a.id = call'.ret
             /\ getAuthorById(authors', toString(call'.ret)) = {a}
             /\ \A b \in authors : b.id # a.id
             /\ authors' = authors \cup {a}
             /\ a.email # "" /\ a.bio # "" ]_vars

\* An author created with an email and an empty bio, next to another author.
C18_Witness ==
  /\ call.op = "createAuthor"
  /\ call.ok
  /\ \E a \in authors : a.id = call.ret /\ a.email # Null /\ a.bio = Null
  /\ Cardinality(authors) = 2

\* The page number a request asks for: 1 when the parameter is missing or
\* not a number (and for 0, in the handlers' favour).
RequestedPage(arg) ==
  LET neg == arg # <<>> /\ Head(arg) = "-"
      digits == IF neg THEN Tail(arg) ELSE arg
  IN IF digits = <<>> \/ \E i \in 1..Len(digits) : digits[i] \notin Digits THEN 1
     ELSE LET n == LeadingDigits(digits, 0)
          IN IF n = 0 THEN 1 ELSE IF neg THEN 0 - n ELSE n

\* The records at positions [(k-1)*L, k*L) of a sequence, by id.
PagePositions(all, k, L) ==
  LET lo == Max((k - 1) * L, 0)
      hi == Min(k * L, Len(all))
  IN IF lo < hi THEN SubSeq(Ids(all), lo + 1, hi) ELSE <<>>

IsPostListing(r) == r.method = "GET" /\ r.url.path \in {"/posts", "/admin/posts"}

\* C19: Pagination.  For a result sequence of P records, page size L (6
\* public, 10 admin) and every requested page number k, a post listing
\* returns the records at positions [(k-1)*L, k*L), totalPages = ceil(P/L),
\* hasNext = (k < ceil(P/L)) and hasPrevious = (k > 1); a missing or
\* unparsable page counts as k = 1.
C19_Pagination ==
  IsPostListing(req) =>
    LET L == IF req.url.path = "/posts" THEN PublicLimit ELSE AdminLimit
        all == IF req.url.path = "/posts" THEN getAllPosts(posts)
               ELSE adminIndexPosts(posts, req.body)
        k == RequestedPage(req.body.page)
    IN /\ res.data.posts = PagePositions(all, k, L)
       /\ res.data.totalPages = CeilDiv(Len(all), L)
       /\ res.data.hasNext = (k < CeilDiv(Len(all), L))
       /\ res.data.hasPrevious = (k > 1)

IsListing(r) ==
  r.method = "GET" /\ r.url.path \in {"/posts", "/admin/posts", "/admin/authors"}

\* C20: Listing search plumbing.  On each listing endpoint (public posts,
\* admin posts, admin authors) a request with a non-empty search parameter
\* lists the result of the repository's search for that query, and a request
\* without one lists the result of list-all; the store is not modified.
C20_SearchPlumbing ==
  [][ IsListing(req') =>
        LET q == req'.body
            searched == Truthy(q.search)
        IN /\ UNCHANGED storeVars
           /\ res'.status = 200
           /\ req'.url.path = "/posts" =>
                res'.data.posts =
                  Listing(IF searched THEN searchPosts(posts, q.search)
                          ELSE getAllPosts(posts), q.page, PublicLimit).posts
           /\ req'.url.path = "/admin/posts" =>
                res'.data.posts =
                  Listing(IF searched THEN searchPosts(posts, q.search)
                          ELSE getAllPosts(posts), q.page, AdminLimit).posts
           /\ req'.url.path = "/admin/authors" =>
                res'.data.authors =
                  Ids(IF searched THEN searchAuthors(authors, q.search)
                      ELSE getAllAuthors(authors)) ]_vars

\* C21: Empty query matches all.  In every store state searchPosts("")
\* returns the posts of getAllPosts() in the same order, and searchAuthors("")
\* returns every stored author, those with a null email included, ordered by
\* name.
C21_EmptyQueryMatchesAll ==
  /\ searchPosts(posts, <<>>) = getAllPosts(posts)
  /\ Len(searchPosts(posts, <<>>)) = Cardinality(posts)
  /\ searchAuthors(authors, <<>>) = OrderAuthors(authors)
  /\ { searchAuthors(authors, <<>>)[i] : i \in 1..Len(searchAuthors(authors, <<>>)) }
       = authors

\* A search over a store that holds two posts and an author without email.
C21_Witness ==
  /\ call.op \in {"searchPosts", "searchAuthors"}
  /\ call.ok
  /\ Cardinality(posts) = 2
  /\ \E a \in authors : a.email = Null

IsLogout(r) == r.method = "GET" /\ r.url.path = "/logout"

\* C22: Logout always looks successful.  GET /logout is answered with a
\* redirect to / whether the destruction of the session succeeds or reports
\* an error; nothing else is sent and the content store is unchanged.
C22_LogoutAlwaysRedirects ==
  [][ IsLogout(req') =>
        /\ res' = Redirect("handleLogout", Url("/", <<>>))
        /\ res'.kind = "redirect"
        /\ res'.target.path = "/"
        /\ UNCHANGED storeVars ]_vars

\* A logout whose session destruction failed: the session is still
\* authenticated behind the redirect.
C22_Witness ==
  /\ IsLogout(req)
  /\ res.kind = "redirect"
  /\ sessions[req.sid].isAuthenticated

\* The characters the generator is said to keep: letters, digits, underscore,
\* hyphen and whitespace.
IsSlugSource(c) ==
  \/ c \in LowerLetters \cup UpperLetters
  \/ c \in Digits
  \/ c \in {"_", "-"}
  \/ c \in Whitespace

\* s with every maximal run of characters of `run` replaced by one hyphen.
RunsToHyphen(s, run) ==
  LET Starts(i) == ~(s[i] \in run /\ i > 1 /\ s[i - 1] \in run)
      kept == SelectSeq([i \in 1..Len(s) |-> i], Starts)
  IN [j \in 1..Len(kept) |-> IF s[kept[j]] \in run THEN "-" ELSE s[kept[j]]]

\* The algorithm as the specification words it.
StatedSlug(title) ==
  LET lowered == trim(toLowerCase(title))
      cleaned == SelectSeq(lowered, IsSlugSource)
  IN RunsToHyphen(RunsToHyphen(cleaned, Whitespace), {"-"})

\* C23: Slug generator.  createSlug(title) is the title lowercased, trimmed,
\* stripped of every character that is not a letter, digit, underscore,
\* hyphen or whitespace, with each run of whitespace and then each run of
\* hyphens replaced by one hyphen; the slug holds no whitespace, no uppercase
\* letter and no two hyphens in a row, and a title equal to a stored post's
\* title gives that post's slug again.
C23_SlugGenerator ==
  \A p \in posts :
    /\ p.slug = StatedSlug(p.title)
    /\ \A i \in 1..Len(p.slug) :
         /\ p.slug[i] \notin Whitespace
         /\ p.slug[i] \notin UpperLetters
         /\ i > 1 => ~(p.slug[i] = "-" /\ p.slug[i - 1] = "-")
    /\ createSlug(p.title) = p.slug
    /\ createPost(posts, authors, postSeq, now,
                  [title |-> p.title, excerpt |-> "e1", content |-> PlainContent,
                   author_id |-> NullId]).err = UniqueError

\* A stored post whose title has an uppercase letter, a special character,
\* a run of whitespace next to hyphens, and whose slug is a-b.
C23_Witness ==
  /\ call.op = "createPost"
  /\ call.ok
  /\ \E p \in posts :
       /\ p.title = <<"A", "-", " ", "b">>
       /\ p.slug = <<"a", "-", "b">>

RECURSIVE SumCounts(_)
SumCounts(rows) ==
  IF rows = <<>> THEN 0 ELSE Head(rows).post_count + SumCounts(Tail(rows))

\* C24: Post counts.  getAuthorsWithPostCount returns every stored author
\* exactly once, an author without posts with count 0, each post_count is
\* the number of stored posts whose author_id is that author's id, and the
\* counts plus the number of posts without author add up to the number of
\* posts.
C24_PostCounts ==
  LET rows == getAuthorsWithPostCount(posts, authors) IN
    /\ Len(rows) = Cardinality(authors)
    /\ { rows[i].author : i \in 1..Len(rows) } = authors
    /\ \A i \in 1..Len(rows) :
         rows[i].post_count =
           Cardinality({ p \in posts : p.author_id = rows[i].author.id })
    /\ SumCounts(rows) + Cardinality({ p \in posts : p.author_id = NullId })
         = Cardinality(posts)

\* The count taken over two authors, one with a post and one without, and
\* a post without author.
C24_Witness ==
  /\ call.op = "getAuthorsWithPostCount"
  /\ call.ok
  /\ Cardinality(authors) = 2
  /\ \E a \in authors : \A p \in posts : p.author_id # a.id
  /\ \E p, q \in posts : p.author_id = NullId /\ q.author_id # NullId

\* C25: No login without a configured secret.  While ADMIN_PASSWORD is
\* undefined no POST /login, one without a password field included, sets
\* isAuthenticated on a session.
C25_NoLoginWithoutSecret ==
  env = Undefined => \A s \in SessionIds : ~sessions[s].isAuthenticated

\* The author reference of the input names no stored author.
Dangling(as, d) == d.author_id # NullId /\ \A a \in as : a.id # d.author_id

\* C26: Referential integrity.  In every state the repository calls reach,
\* each post's author_id is null or the id of a stored author; a createPost
\* or updatePost whose author_id names no stored author returns null and
\* leaves the store unchanged.
C26_ReferentialIntegrity ==
  /\ [](\A p \in posts :
          p.author_id = NullId \/ \E a \in authors : a.id = p.author_id)
  /\ [](\A d \in PostInputs :
          Dangling(authors, d) =>
            /\ LET r == createPost(posts, authors, postSeq, now, d)
               IN r.ret = NullId /\ r.posts = posts /\ r.postSeq = postSeq
            /\ \A id \in PostIdArgs :
                 LET r == updatePost(posts, authors, now, id, d)
                 IN r.ret = NullId /\ r.posts = posts)
  /\ [][ (call'.op \in {"createPost", "updatePost"} /\ call'.err = ForeignKeyError)
           => /\ call'.ret = NullId
              /\ ~call'.ok
              /\ UNCHANGED storeVars ]_vars

\* An updatePost refused for its author reference, on a store whose other
\* post has an author.
C26_Witness ==
  /\ call.op = "updatePost"
  /\ call.err = ForeignKeyError
  /\ call.ret = NullId
  /\ \E p \in posts : p.author_id # NullId
  /\ Cardinality(authors) = 1

\* C27: Every created post is publicly addressable.  While a post created
\* through POST /admin/posts with a non-empty title is stored, GET
\* /posts/<its slug> reaches the single-post handler and returns that post,
\* never the list view and never 404.
C27_PubliclyAddressable ==
  [][ (/\ req'.method = "GET"
       /\ req'.url.path = "/posts/:slug"
       /\ \E p \in posts : p.slug = req'.url.param)
        => /\ res'.handler = "posts.show"
           /\ res'.status = 200
           /\ res'.view = "posts/show.njk"
           /\ \E p \in posts : p.slug = req'.url.param /\ res'.data.entity = p.id ]_vars

\* C28: Login redirect stays inside the admin area.  In every session
\* returnTo is absent or a URL under /admin, so a successful login redirects
\* to /admin/posts or to a URL under /admin; and an authenticated session
\* has no returnTo.
C28_ReturnToInsideAdmin ==
  /\ [](\A s \in SessionIds :
          /\ sessions[s].returnTo = NoUrl \/ IsAdminUrl(sessions[s].returnTo)
          /\ sessions[s].isAuthenticated => sessions[s].returnTo = NoUrl)
  /\ [][ (IsLoginPost(req') /\ req'.body.password = env)
           => /\ res'.kind = "redirect"
              /\ res'.target = AdminPostsUrl \/ IsAdminUrl(res'.target) ]_vars

\* A login sent back to a recorded admin URL other than the post list,
\* while another session still holds its recorded URL.
C28_Witness ==
  /\ IsLoginPost(req)
  /\ sessions[req.sid].isAuthenticated
  /\ res.kind = "redirect"
  /\ res.target # AdminPostsUrl
  /\ \E t \in SessionIds : t # req.sid /\ sessions[t].returnTo # NoUrl

\* C29: Logout revokes access.  A GET /logout whose session destruction
\* succeeds leaves the browser session unauthenticated with no recorded
\* redirect-back path; only a login with the correct password authenticates
\* a session again, until then every request under /admin is redirected to
\* /login and changes nothing, and a login that finds no recorded path goes
\* to /admin/posts.
C29_LogoutRevokes ==
  [][ /\ (IsLogout(req') /\ call'.ok) => sessions'[req'.sid] = FreshSession
      /\ \A s \in SessionIds :
           (sessions'[s].isAuthenticated /\ ~sessions[s].isAuthenticated)
             => /\ IsLoginPost(req')
                /\ req'.sid = s
                /\ req'.body.password = env
      /\ (IsAdminRequest(req') /\ ~sessions[req'.sid].isAuthenticated)
           => /\ res' = Redirect("requireAuth", LoginUrl)
              /\ ~sessions'[req'.sid].isAuthenticated
              /\ UNCHANGED storeVars
      /\ (IsLoginPost(req') /\ req'.body.password = env
            /\ sessions[req'.sid].returnTo = NoUrl)
           => res'.target = AdminPostsUrl ]_vars

\* A logout that destroyed the session of the administrator who wrote the
\* stored post: no session is authenticated any more.
C29_Witness ==
  /\ IsLogout(req)
  /\ call.op = "session.destroy"
  /\ call.ok
  /\ posts # {}
  /\ \A s \in SessionIds : ~sessions[s].isAuthenticated
  /\ sessions[req.sid].returnTo = NoUrl

\* ---------------------------------------------------------------------
\* The JSON-file post repository: every call reads the whole of
\* posts.json, changes its copy in memory and writes the whole file back,
\* with an await before the read and before the write.
\* ---------------------------------------------------------------------

\* Ids the file repository hands out before the model stops creating.
MaxFilePosts == 2

JsonTitles == {"x", "y"}

\* readData: the parsed contents of posts.json.
readData(file) == file

\* Array.prototype.findIndex on post.id, 0 where JavaScript answers -1.
FindIndex(ps, id) ==
  IF \E i \in 1..Len(ps) : ps[i].id = id
  THEN CHOOSE i \in 1..Len(ps) :
         /\ ps[i].id = id
         /\ \A j \in 1..(i - 1) : ps[j].id # id
  ELSE 0

\* Array.prototype.splice(index, 1).
Splice(ps, index) ==
  [i \in 1..(Len(ps) - 1) |-> IF i < index THEN ps[i] ELSE ps[i + 1]]

\* createPost up to its await on writeData: the copy read from the file
\* gets the new post, numbered data.nextId, and nextId + 1.
JsonCreatePost(t, title) ==
  /\ tasks[t].pc = "idle"
  /\ dataFile.nextId <= MaxFilePosts
  /\ LET data == readData(dataFile)
         newPost == [id |-> data.nextId, title |-> title, createdAt |-> now]
     IN tasks' = [tasks EXCEPT ![t] =
          [pc |-> "writeData", op |-> "createPost", id |-> newPost.id,
           createdAt |-> newPost.createdAt,
           data |-> [posts |-> Append(data.posts, newPost),
                     nextId |-> data.nextId + 1]]]
  /\ UNCHANGED <<storeVars, now, call, httpVars, dataFile, returned>>

\* updatePost up to its await on writeData; null at once when no post of
\* the copy has the id.
JsonUpdatePost(t, id, title) ==
  /\ tasks[t].pc = "idle"
  /\ LET data == readData(dataFile)
         index == FindIndex(data.posts, id)
     IN IF index = 0
        THEN tasks' = tasks
        ELSE tasks' = [tasks EXCEPT ![t] =
               [pc |-> "writeData", op |-> "updatePost", id |-> id,
                createdAt |-> data.posts[index].createdAt,
                data |-> [data EXCEPT !.posts[index].title = title]]]
  /\ UNCHANGED <<storeVars, now, call, httpVars, dataFile, returned>>

\* deletePost up to its await on writeData; false at once when no post of
\* the copy has the id.
JsonDeletePost(t, id) ==
  /\ tasks[t].pc = "idle"
  /\ LET data == readData(dataFile)
         index == FindIndex(data.posts, id)
     IN IF index = 0
        THEN tasks' = tasks
        ELSE tasks' = [tasks EXCEPT ![t] =
               [pc |-> "writeData", op |-> "deletePost", id |-> id,
                createdAt |-> data.posts[index].createdAt,
                data |-> [data EXCEPT !.posts = Splice(data.posts, index)]]]
  /\ UNCHANGED <<storeVars, now, call, httpVars, dataFile, returned>>

\* writeData and the return that follows it: the call's copy replaces
\* posts.json unless writeFile throws; createPost then returns its new
\* post, deletePost true.
JsonWriteData(t, success) ==
  /\ tasks[t].pc = "writeData"
  /\ dataFile' = IF success THEN tasks[t].data ELSE dataFile
  /\ returned' =
       CASE success /\ tasks[t].op = "createPost" ->
              returned \cup {[id |-> tasks[t].id, createdAt |-> tasks[t].createdAt]}
         [] success /\ tasks[t].op = "deletePost" ->
              returned \ {[id |-> tasks[t].id, createdAt |-> tasks[t].createdAt]}
         [] OTHER -> returned
  /\ tasks' = [tasks EXCEPT ![t] = IdleTask]
  /\ UNCHANGED <<storeVars, now, call, httpVars>>

\* Calls of the file repository started while others are in flight.
NextFile ==
  \/ \E t \in TaskIds, title \in JsonTitles : JsonCreatePost(t, title)
  \/ \E t \in TaskIds, id \in 1..MaxFilePosts, title \in JsonTitles :
       JsonUpdatePost(t, id, title)
  \/ \E t \in TaskIds, id \in 1..MaxFilePosts : JsonDeletePost(t, id)
  \/ \E t \in TaskIds, success \in BOOLEAN : JsonWriteData(t, success)
  \/ Tick

SpecFile == Init /\ [][NextFile]_vars

\* Every call of the file repository has returned.
Quiescent == \A t \in TaskIds : tasks[t].pc = "idle"

\* The post createPost returned is in posts.json.
Persisted(r) ==
  \E i \in 1..Len(dataFile.posts) :
    /\ dataFile.posts[i].id = r.id
    /\ dataFile.posts[i].createdAt = r.createdAt

\* C30: after any interleaving of concurrent createPost, updatePost and
\* deletePost calls of the JSON-file repository, every post a createPost
\* returned (and no deletePost removed) is in the persisted file, the
\* persisted ids are pairwise distinct, and nextId is greater than every
\* persisted id.
C30_FileStoreUnderConcurrency ==
  Quiescent =>
    /\ \A r \in returned : Persisted(r)
    /\ \A i, j \in 1..Len(dataFile.posts) :
         dataFile.posts[i].id = dataFile.posts[j].id => i = j
    /\ \A i \in 1..Len(dataFile.posts) : dataFile.posts[i].id < dataFile.nextId

\* The two parts of C30 that do hold: what any one write leaves in the
\* file has distinct ids, all below nextId.
FileIdsDistinctBelowNextId ==
  /\ \A i, j \in 1..Len(dataFile.posts) :
       dataFile.posts[i].id = dataFile.posts[j].id => i = j
  /\ \A i \in 1..Len(dataFile.posts) : dataFile.posts[i].id < dataFile.nextId

====
